---------------------------- MODULE Spec2Model ----------------------------
(***************************************************************************)
(* Adaptive difficulty state machine and scoring / penalty engine of the  *)
(* AI live-interview platform (interview_manager.py, llm_runner.py,       *)
(* scoring_service.py).                                                   *)
(*                                                                         *)
(* Decimal quantities that the program reports rounded to one decimal     *)
(* place (technical_score, base_score, overall_score) are carried as      *)
(* integers counting tenths, so 90.0 is 900.                              *)
(***************************************************************************)
EXTENDS Integers, Sequences, FiniteSets, TLC

VARIABLES
    \* ---- InterviewManager (interview_manager.py) ----
    current_level,          \* self.current_level
    consecutive_correct,    \* self.consecutive_correct
    consecutive_incorrect,  \* self.consecutive_incorrect
    level_questions_asked,  \* self.level_questions_asked
    level_progression,      \* self.level_progression
    technical_scores,       \* self.session_data["technical_scores"]
    promotion_needed,       \* local flag of the last determine_next_level call
    demotion_needed,        \* local flag of the last determine_next_level call
    status,                 \* self.session_data["status"]
    final_evaluation,       \* self.session_data["final_evaluation"]
    calls,                  \* history: one record per determine_next_level call
    candidate_answers,      \* self.session_data["candidate_answers"]
    current_question_index, \* self.session_data["current_question_index"]
    \* ---- one evaluate_answer_quality call (scorer) ----
    answer,                 \* the answer text, a sequence of characters
    attempt,                \* loop variable of LLMRunner.generate_text
    pauses,                 \* the time.sleep calls of generate_text, in seconds
    all_raised,             \* every generate_content attempt of the call raised
    llm_response,           \* what self.llm.ask returned
    eval_score,             \* what evaluate_answer_quality returned
    scorer_pc,              \* "idle" | "asking" | "done"
    \* ---- one proctoring penalty computation ----
    stats,                  \* the proctoring-stats record handed in
    im_penalty,             \* InterviewManager._calculate_proctoring_penalty
    svc_penalty,            \* ScoringService.calculate_proctoring_penalty
    penalty_details,        \* proctoring_stats["penalty_details"]["total_penalty"]
    penalty_pc,             \* "idle" | "ready"
    \* ---- repeated final evaluations of one session state ----
    evaluations,            \* the records returned so far, by calculator
    ev_inputs,              \* the inputs as they were at the first evaluation
    tie_side,               \* side of a half-way value's float, by calculator
    \* ---- one ReliableInterviewSession behind the endpoints (main.py) ----
    question_number,        \* session.question_number
    session_level,          \* session.current_level
    is_active,              \* session.is_active
    registered,             \* session_id in active_sessions
    tab_switch_count,       \* session.tab_switch_count
    proctoring_stats,       \* session.proctoring_stats (the six counts)
    last_request,           \* the request handled last and its response
    ended_explicitly,       \* the end endpoint has ended the session
    requests_after_end,     \* requests handled since the session completed
    \* ---- next-question requests of one session on the thread pool ----
    workers,                \* per request slot: position and locals of the turn
    worker_requests,        \* requests submitted so far
    \* ---- the sessions of the process (main.py active_sessions) ----
    sessions,               \* the session objects, in order of creation
    clock,                  \* int(time.time())
    last_op,                \* session id named by the request handled last
    \* ---- proctoring channels of one session next to a turn (main.py) ----
    video_socket,           \* video_stream: position of its receive loop
    monitor_socket,         \* monitor_stream: position of its receive loop
    events_received,        \* history: events handled so far, by counter
    turn,                   \* the next-question request on the thread pool
    \* ---- one next-question request and what can fail in it (main.py) ----
    reply                   \* the response of the request handled last

sessionVars == <<current_level, consecutive_correct, consecutive_incorrect,
                 level_questions_asked, level_progression, technical_scores,
                 promotion_needed, demotion_needed, status, final_evaluation,
                 calls, candidate_answers, current_question_index>>
scorerVars == <<answer, attempt, pauses, all_raised, llm_response, eval_score,
                scorer_pc>>
penaltyVars == <<stats, im_penalty, svc_penalty, penalty_details, penalty_pc>>
evalVars == <<evaluations, ev_inputs, tie_side>>
endpointVars == <<question_number, session_level, is_active, registered,
                  tab_switch_count, proctoring_stats, last_request,
                  ended_explicitly, requests_after_end>>
workerVars == <<workers, worker_requests>>
registryVars == <<sessions, clock, last_op>>
proctorVars == <<video_socket, monitor_socket, events_received, turn>>
faultVars == <<reply>>
concurrentVars == <<workerVars, registryVars, proctorVars, faultVars>>
outsideTurns == <<scorerVars, penaltyVars, evalVars, concurrentVars>>
laterVars == <<evalVars, endpointVars, concurrentVars>>
vars == <<sessionVars, scorerVars, penaltyVars, laterVars>>

\* An optional value (Python's None or a value) is a sequence of at most one
\* element.
None == <<>>
Some(x) == <<x>>

Min(a, b) == IF a <= b THEN a ELSE b
Max(a, b) == IF a >= b THEN a ELSE b

RECURSIVE SumSeq(_)
SumSeq(s) == IF s = <<>> THEN 0 ELSE Head(s) + SumSeq(Tail(s))

(***************************************************************************)
(* Bounds of the model.                                                    *)
(***************************************************************************)
\* determine_next_level / process_answer calls explored per session
MaxAnswers == 7
\* scores fed to determine_next_level: the two sides of the pass threshold
\* and the top of the score range
ScoreSamples == {59, 60, 100}

(***************************************************************************)
(* LevelTracker: InterviewManager.determine_next_level and its helpers.    *)
(***************************************************************************)
Levels == {"easy", "medium", "hard"}

PassThreshold == 60

is_correct(technical_score) == technical_score >= PassThreshold

\* mutant: a failed answer leaves the streak of correct answers standing
UpdatedCorrectNoReset(technical_score, cc) ==
    IF is_correct(technical_score) THEN cc + 1 ELSE cc

\* lines 193-201: the streak update
UpdatedCorrect(technical_score, cc) ==
    IF is_correct(technical_score) THEN cc + 1 ELSE 0

\* mutant: a passed answer leaves the streak of failed answers standing
UpdatedIncorrectNoReset(technical_score, ci) ==
    IF is_correct(technical_score) THEN ci ELSE ci + 1

UpdatedIncorrect(technical_score, ci) ==
    IF is_correct(technical_score) THEN 0 ELSE ci + 1

PromoteStreak == 2
DemoteStreak == 2

\* mutant: a promotion that needs a streak of three
should_promote_level_slow(level, cc) ==
    IF level = "hard" THEN FALSE ELSE cc >= PromoteStreak + 1

should_promote_level(level, cc) ==
    IF level = "hard" THEN FALSE ELSE cc >= PromoteStreak

\* mutant: a demotion on the first failed answer
should_demote_level_eager(level, ci) ==
    IF level = "easy" THEN FALSE ELSE ci >= DemoteStreak - 1

\* mutant: a demotion that needs a streak of three
should_demote_level_slow(level, ci) ==
    IF level = "easy" THEN FALSE ELSE ci >= DemoteStreak + 1

should_demote_level(level, ci) ==
    IF level = "easy" THEN FALSE ELSE ci >= DemoteStreak

\* mutant: every promotion goes straight to hard
PromotionTargetSkips(level) == "hard"

\* lines 212-215: the target of a promotion
PromotionTarget(level) == IF level = "easy" THEN "medium" ELSE "hard"

\* mutant: a demotion that stays at the level it starts from
DemotionTargetStays(level) == level

\* lines 219-222: the target of a demotion
DemotionTarget(level) == IF level = "medium" THEN "easy" ELSE "medium"

\* mutant: _change_level starts both streaks afresh in the new level
DetermineNextLevelResetting(technical_score) ==
    LET cc == UpdatedCorrect(technical_score, consecutive_correct)
        ci == UpdatedIncorrect(technical_score, consecutive_incorrect)
        promote == should_promote_level(current_level, cc)
        demote == (~promote) /\ should_demote_level(current_level, ci)
        new_level == IF promote THEN PromotionTarget(current_level)
                     ELSE IF demote THEN DemotionTarget(current_level)
                     ELSE current_level
        changed == promote \/ demote
    IN  /\ consecutive_correct' = IF changed THEN 0 ELSE cc
        /\ consecutive_incorrect' = IF changed THEN 0 ELSE ci
        /\ promotion_needed' = promote
        /\ demotion_needed' = demote
        /\ current_level' = new_level
        /\ level_progression' = IF changed THEN Append(level_progression, new_level)
                                ELSE level_progression
        /\ level_questions_asked' = IF changed THEN 0 ELSE level_questions_asked + 1
        /\ calls' = Append(calls, [score |-> technical_score,
                                   old_level |-> current_level,
                                   old_correct |-> consecutive_correct,
                                   old_incorrect |-> consecutive_incorrect,
                                   new_level |-> new_level])

\* determine_next_level(technical_score), with _change_level inlined
DetermineNextLevel(technical_score) ==
    LET cc == UpdatedCorrect(technical_score, consecutive_correct)
        ci == UpdatedIncorrect(technical_score, consecutive_incorrect)
        promote == should_promote_level(current_level, cc)
        demote == (~promote) /\ should_demote_level(current_level, ci)
        new_level == IF promote THEN PromotionTarget(current_level)
                     ELSE IF demote THEN DemotionTarget(current_level)
                     ELSE current_level
        changed == promote \/ demote
    IN  /\ consecutive_correct' = cc
        /\ consecutive_incorrect' = ci
        /\ promotion_needed' = promote
        /\ demotion_needed' = demote
        /\ current_level' = new_level
        /\ level_progression' = IF changed THEN Append(level_progression, new_level)
                                ELSE level_progression
        /\ level_questions_asked' = IF changed THEN 0 ELSE level_questions_asked + 1
        /\ calls' = Append(calls, [score |-> technical_score,
                                   old_level |-> current_level,
                                   old_correct |-> consecutive_correct,
                                   old_incorrect |-> consecutive_incorrect,
                                   new_level |-> new_level])

\* mutant: the record of an answer carries no score of its own
RecordAnswerUnscored(technical_score) ==
    /\ candidate_answers' =
           Append(candidate_answers,
                  [technical_score |-> 0, level |-> current_level'])
    /\ current_question_index' = current_question_index + 1

\* process_answer lines 380-398: the Q&A record of the answer, with the score
\* and the level after the transition, and the question index
RecordAnswer(technical_score) ==
    /\ candidate_answers' =
           Append(candidate_answers,
                  [technical_score |-> technical_score, level |-> current_level'])
    /\ current_question_index' = current_question_index + 1



(***************************************************************************)
(* Text.  A text is a sequence of one-character strings.                   *)
(***************************************************************************)
Digits == {"0", "1", "2", "3", "4", "5", "6", "7", "8", "9"}
LowerLetters == {"a", "b", "c", "d", "e", "f", "g", "h", "i", "j", "k", "l", "m", "n", "o", "p", "q", "r", "s", "t", "u", "v", "w", "x", "y", "z"}
UpperLetters == {"A", "B", "C", "D", "E", "F", "G", "H", "I", "J", "K", "L", "M", "N", "O", "P", "Q", "R", "S", "T", "U", "V", "W", "X", "Y", "Z"}
Whitespace == {" ", "\n", "\t"}

\* a character that \w matches: \b lies between such a character and one
\* that is not (or an end of the text)
IsWordChar(c) == c \in Digits \cup LowerLetters \cup UpperLetters \cup {"_"}

\* int() of one digit
DigitValue(c) ==
    CASE c = "0" -> 0
      [] c = "1" -> 1
      [] c = "2" -> 2
      [] c = "3" -> 3
      [] c = "4" -> 4
      [] c = "5" -> 5
      [] c = "6" -> 6
      [] c = "7" -> 7
      [] c = "8" -> 8
      [] c = "9" -> 9

\* int(numbers[0]): the decimal value of a text of digits
RECURSIVE ParseInt(_)
ParseInt(t) ==
    IF t = <<>> THEN 0
    ELSE 10 * ParseInt(SubSeq(t, 1, Len(t) - 1)) + DigitValue(t[Len(t)])

\* str.lower() of one character
LowerChar(c) ==
    CASE c = "A" -> "a"
      [] c = "B" -> "b"
      [] c = "C" -> "c"
      [] c = "D" -> "d"
      [] c = "E" -> "e"
      [] c = "F" -> "f"
      [] c = "G" -> "g"
      [] c = "H" -> "h"
      [] c = "I" -> "i"
      [] c = "J" -> "j"
      [] c = "K" -> "k"
      [] c = "L" -> "l"
      [] c = "M" -> "m"
      [] c = "N" -> "n"
      [] c = "O" -> "o"
      [] c = "P" -> "p"
      [] c = "Q" -> "q"
      [] c = "R" -> "r"
      [] c = "S" -> "s"
      [] c = "T" -> "t"
      [] c = "U" -> "u"
      [] c = "V" -> "v"
      [] c = "W" -> "w"
      [] c = "X" -> "x"
      [] c = "Y" -> "y"
      [] c = "Z" -> "z"
      [] OTHER -> c

\* str.lower()
Lower(t) == [i \in 1..Len(t) |-> LowerChar(t[i])]

\* str.strip(): leading and trailing whitespace removed
RECURSIVE StripLeft(_)
StripLeft(t) ==
    IF t # <<>> /\ Head(t) \in Whitespace THEN StripLeft(Tail(t)) ELSE t

RECURSIVE StripRight(_)
StripRight(t) ==
    IF t # <<>> /\ t[Len(t)] \in Whitespace
    THEN StripRight(SubSeq(t, 1, Len(t) - 1))
    ELSE t

Strip(t) == StripRight(StripLeft(t))

\* len(str.split()): the number of maximal runs of non-whitespace
SplitCount(t) ==
    Cardinality({i \in 1..Len(t) :
                    /\ t[i] \notin Whitespace
                    /\ (i = 1 \/ t[i - 1] \in Whitespace)})

\* `needle in hay`
Contains(hay, needle) ==
    \E i \in 1..(Len(hay) - Len(needle) + 1) :
        SubSeq(hay, i, i + Len(needle) - 1) = needle

(***************************************************************************)
(* re.findall(r"\b\d{1,3}\b", response), as the regex engine runs it.      *)
(***************************************************************************)
\* \b at position i (between t[i-1] and t[i])
WordBoundaryAt(t, i) ==
    LET before == i > 1 /\ IsWordChar(t[i - 1])
        after == i <= Len(t) /\ IsWordChar(t[i])
    IN  before # after

AllDigits(t, i, k) ==
    /\ i + k - 1 <= Len(t)
    /\ \A j \in i..(i + k - 1) : t[j] \in Digits

\* \b\d{k}\b matches at position i
MatchesWith(t, i, k) ==
    /\ WordBoundaryAt(t, i)
    /\ AllDigits(t, i, k)
    /\ WordBoundaryAt(t, i + k)

\* the length of the match starting at i, 0 if none: \d{1,3} is greedy, it
\* tries three digits, then two, then one
MatchLengthAt(t, i) ==
    IF MatchesWith(t, i, 3) THEN 3
    ELSE IF MatchesWith(t, i, 2) THEN 2
    ELSE IF MatchesWith(t, i, 1) THEN 1
    ELSE 0

\* findall from position i on: the matches, left to right, not overlapping
RECURSIVE FindallFrom(_, _)
FindallFrom(t, i) ==
    IF i > Len(t) THEN <<>>
    ELSE LET k == MatchLengthAt(t, i)
         IN  IF k = 0 THEN FindallFrom(t, i + 1)
             ELSE <<SubSeq(t, i, i + k - 1)>> \o FindallFrom(t, i + k)

Findall(t) == FindallFrom(t, 1)

(***************************************************************************)
(* LLMRunner.generate_text / ask (llm_runner.py).                          *)
(***************************************************************************)
\* max_retries (line 26)
MaxRetries == 3

\* time.sleep(2) (line 40)
RetryPause == 2

\* "Please continue with your answer." (lines 35 and 42)
FallbackText ==
    <<"P", "l", "e", "a", "s", "e", " ", "c", "o", "n", "t", "i", "n", "u", "e", " ", "w", "i", "t", "h", " ", "y", "o", "u", "r", " ", "a", "n", "s", "w", "e", "r", ".">>

(***************************************************************************)
(* AnswerScorer: InterviewManager.evaluate_answer_quality.                 *)
(***************************************************************************)
KeywordBecause == <<"b", "e", "c", "a", "u", "s", "e">>
KeywordExample == <<"e", "x", "a", "m", "p", "l", "e">>
KeywordMethod == <<"m", "e", "t", "h", "o", "d">>
KeywordTechnique == <<"t", "e", "c", "h", "n", "i", "q", "u", "e">>
KeywordApproach == <<"a", "p", "p", "r", "o", "a", "c", "h">>

\* lines 141-147
Keywords ==
    {KeywordBecause, KeywordExample, KeywordMethod, KeywordTechnique,
     KeywordApproach}

\* mutant: the score is returned as parsed
ClampScoreMissing(score) == score

\* line 127: max(0, min(100, score))
ClampScore(score) == Max(0, Min(100, score))

\* mutant: the detailed-answer test asks for more than 20 characters
LooksDetailedByLength(ans) ==
    /\ Len(ans) > 20
    /\ \E keyword \in Keywords : Contains(Lower(ans), keyword)

\* lines 139-148: more than 20 words and one of the keywords
LooksDetailed(ans) ==
    /\ SplitCount(ans) > 20
    /\ \E keyword \in Keywords : Contains(Lower(ans), keyword)

\* lines 136-151: no number in the response
KeywordHeuristic(ans) == IF LooksDetailed(ans) THEN 65 ELSE 45

\* lines 153-159: the except branch
LengthHeuristic(ans) == IF Len(ans) > 50 THEN 55 ELSE 40

\* evaluate_answer_quality(answer, question); asked is what self.llm.ask did:
\* None when it raised, Some(text) when it returned text
EvaluateAnswerQuality(ans, asked) ==
    IF asked = None THEN LengthHeuristic(ans)
    ELSE LET response == Strip(asked[1])
             numbers == Findall(response)
         IN  IF numbers # <<>> THEN ClampScore(ParseInt(numbers[1]))
             ELSE KeywordHeuristic(ans)

(***************************************************************************)
(* ProctoringPenaltyCalculator.  A proctoring-stats record carries the six *)
(* counts the penalty code reads with .get(key, 0).                        *)
(***************************************************************************)
\* counts 0..MaxSmallCount are explored in every category, next to the
\* counts at and around each category's cap
MaxSmallCount == 1

TabSwitchCounts == (0..MaxSmallCount) \cup {9, 10, 11, 15}
MultipleFacesCounts == (0..MaxSmallCount) \cup {3, 4}
FaceCoveringCounts == (0..MaxSmallCount) \cup {5, 6, 10}
EyeCoveringCounts == (0..MaxSmallCount) \cup {5, 6, 10}
NoFaceCounts == (0..MaxSmallCount) \cup {7, 8, 20}
TotalAlertCounts == (0..MaxSmallCount) \cup {10, 11}

ProctoringStats ==
    [tab_switch_count : TabSwitchCounts,
     multiple_faces : MultipleFacesCounts,
     face_coverings : FaceCoveringCounts,
     eye_coverings : EyeCoveringCounts,
     no_face_count : NoFaceCounts,
     total_alerts : TotalAlertCounts]

\* InterviewManager._calculate_proctoring_penalty, category by category
IMTabPenalty(s) ==
    IF s.tab_switch_count > 0 THEN Min(s.tab_switch_count * 2, 20) ELSE 0

IMMultiplePenalty(s) ==
    IF s.multiple_faces > 0 THEN 15 * s.multiple_faces ELSE 0

IMFaceCoverPenalty(s) ==
    IF s.face_coverings > 0 THEN Min(s.face_coverings * 5, 25) ELSE 0

IMEyeCoverPenalty(s) ==
    IF s.eye_coverings > 0 THEN Min(s.eye_coverings * 5, 25) ELSE 0

IMNoFacePenalty(s) ==
    IF s.no_face_count > 0 THEN Min(s.no_face_count * 2, 15) ELSE 0

IMAlertPenalty(s) ==
    IF s.total_alerts > 0 THEN Min(s.total_alerts * 1, 10) ELSE 0

\* face_penalty as accumulated in lines 560-596
IMFacePenalty(s) ==
    IMMultiplePenalty(s) + IMFaceCoverPenalty(s) + IMEyeCoverPenalty(s)
        + IMNoFacePenalty(s)

\* mutant: the face subtotal is added without its cap
IMCappedFacePenaltyMissing(s) == IMFacePenalty(s)

\* line 598: penalty += min(face_penalty, 50)
IMCappedFacePenalty(s) == Min(IMFacePenalty(s), 50)

\* mutant: the total is returned without its cap
IMCalculateProctoringPenaltyUncapped(s) ==
    IMTabPenalty(s) + IMCappedFacePenalty(s) + IMAlertPenalty(s)

\* line 612: final_penalty = min(penalty, 70)
IMCalculateProctoringPenalty(s) ==
    Min(IMTabPenalty(s) + IMCappedFacePenalty(s) + IMAlertPenalty(s), 70)

\* ScoringService.calculate_proctoring_penalty
SvcTabPenalty(s) ==
    IF s.tab_switch_count > 0 THEN Min(s.tab_switch_count * 2, 20) ELSE 0

SvcFacePenalty(s) ==
    (IF s.multiple_faces > 0 THEN 15 * s.multiple_faces ELSE 0)
    + (IF s.face_coverings > 0 THEN Min(s.face_coverings * 5, 25) ELSE 0)
    + (IF s.eye_coverings > 0 THEN Min(s.eye_coverings * 5, 25) ELSE 0)
    + (IF s.no_face_count > 0 THEN Min(s.no_face_count * 2, 15) ELSE 0)

\* mutant: the service charges the alerts without their cap of 10
SvcAlertPenaltyUncapped(s) ==
    IF s.total_alerts > 0 THEN s.total_alerts * 1 ELSE 0

SvcAlertPenalty(s) ==
    IF s.total_alerts > 0 THEN Min(s.total_alerts * 1, 10) ELSE 0

\* lines 205-225: face cap of 50, then return min(penalty, 70)
SvcCalculateProctoringPenalty(s) ==
    Min(SvcTabPenalty(s) + Min(SvcFacePenalty(s), 50) + SvcAlertPenalty(s), 70)


(***************************************************************************)
(* FinalScoreCalculator: InterviewManager.calculate_final_evaluation.      *)
(***************************************************************************)
\* mutant: the level table of the other scoring variant (0.3, 0.6, 1.0 of 100)
LevelWeightPercent(level) ==
    CASE level = "easy" -> 30
      [] level = "medium" -> 60
      [] level = "hard" -> 100
      [] OTHER -> 30

\* level_weights.get(self.current_level, 30)
LevelWeight(level) ==
    CASE level = "easy" -> 30
      [] level = "medium" -> 70
      [] level = "hard" -> 100
      [] OTHER -> 30

\* technical_score = 50 when no answer was scored (line 505)
DefaultTechnicalScore == 50

\* round(num/den) of a non-negative quotient; a quotient exactly half way is
\* rounded up when tie_up and down otherwise
RoundQuotient(num, den, tie_up) ==
    LET q == num \div den
        r == num % den
    IN  IF 2 * r < den THEN q
        ELSE IF 2 * r > den THEN q + 1
        ELSE IF tie_up THEN q + 1 ELSE q

\* Python's round(x, 1) of a value held exactly by its float (an average
\* ending in .25 or .75): a tie goes to the even tenth
RoundHalfEven(num, den) ==
    RoundQuotient(num, den, (num \div den) % 2 = 1)

\* technical_score in tenths: round(sum/len, 1), or the default
TechnicalScoreTenths(scores) ==
    IF Len(scores) > 0
    THEN RoundHalfEven(10 * SumSeq(scores), Len(scores))
    ELSE 10 * DefaultTechnicalScore

\* mutant: the blend of the other scoring variant, 0.3 level and 0.7 technical
BaseScoreFractionTechnicalFirst(level, scores) ==
    IF Len(scores) > 0
    THEN <<3 * LevelWeight(level) * Len(scores) + 7 * SumSeq(scores), Len(scores)>>
    ELSE <<3 * LevelWeight(level) + 7 * DefaultTechnicalScore, 1>>

\* 10 * base_score as a fraction <<numerator, denominator>>:
\* base_score = level_score * 0.6 + technical_score * 0.4 (line 508)
BaseScoreFraction(level, scores) ==
    IF Len(scores) > 0
    THEN <<6 * LevelWeight(level) * Len(scores) + 4 * SumSeq(scores), Len(scores)>>
    ELSE <<6 * LevelWeight(level) + 4 * DefaultTechnicalScore, 1>>

\* mutant: the total already stored with the record is charged again
AppliedPenaltyAccumulating(st) ==
    IF st = None THEN 0
    ELSE Min(70, IMCalculateProctoringPenalty(st[1])
                 + (IF penalty_details = None THEN 0 ELSE penalty_details[1]))

\* `if proctoring_stats:` (line 518): None and the empty dict apply no penalty
AppliedPenalty(st) ==
    IF st = None THEN 0 ELSE IMCalculateProctoringPenalty(st[1])

\* mutant: the penalty is subtracted without the max(0, ...)
FinalScoreFractionUnclamped(level, scores, st) ==
    LET b == BaseScoreFraction(level, scores)
    IN  <<b[1] - 10 * AppliedPenalty(st) * b[2], b[2]>>

\* 10 * final_score as a fraction: max(0, base_score - proctoring_penalty)
FinalScoreFraction(level, scores, st) ==
    LET b == BaseScoreFraction(level, scores)
    IN  <<Max(0, b[1] - 10 * AppliedPenalty(st) * b[2]), b[2]>>

\* The line items _calculate_proctoring_penalty collects in its local list
\* penalties_applied (lines 547-609), by category
IMPenaltiesApplied(s) ==
    (IF s.tab_switch_count > 0 THEN <<"Tab switches">> ELSE <<>>)
    \o (IF s.multiple_faces > 0 THEN <<"Multiple people">> ELSE <<>>)
    \o (IF s.face_coverings > 0 THEN <<"Face covered">> ELSE <<>>)
    \o (IF s.eye_coverings > 0 THEN <<"Eyes covered">> ELSE <<>>)
    \o (IF s.no_face_count > 0 THEN <<"No face detected">> ELSE <<>>)
    \o (IF s.total_alerts > 0 THEN <<"Total alerts">> ELSE <<>>)

\* What lines 615-617 leave in proctoring_stats["penalty_details"]: the line
\* items and the total when the record came with that key (had_details),
\* nothing otherwise
StoredInStats(s, had_details) ==
    IF had_details
    THEN Some([penalties_applied |-> IMPenaltiesApplied(s),
               total_penalty |-> IMCalculateProctoringPenalty(s)])
    ELSE None

\* penalty_details of the returned record (lines 512-529): penalties_applied
\* and total_penalty keep the values of lines 514-515; the update of lines
\* 523-529 adds proctoring_penalty and the supplied record
PenaltyDetails(st) ==
    [penalties_applied |-> <<>>,
     total_penalty |-> 0,
     proctoring_penalty |-> AppliedPenalty(st),
     proctoring_stats |-> st]

\* The record calculate_final_evaluation returns (lines 531-543).  base_score
\* and overall_score come out of float arithmetic on 0.6 and 0.4, so a value
\* exactly half way between two tenths falls to the side its float happens to
\* lie on: tie_up stands for that side.
CalculateFinalEvaluation(level, scores, st, tie_up) ==
    LET b == BaseScoreFraction(level, scores)
        f == FinalScoreFraction(level, scores, st)
    IN  [final_level |-> level,
         level_score |-> LevelWeight(level),
         technical_score |-> TechnicalScoreTenths(scores),
         base_score |-> RoundQuotient(b[1], b[2], tie_up),
         overall_score |-> RoundQuotient(f[1], f[2], tie_up),
         proctoring_penalty |-> AppliedPenalty(st),
         questions_answered |-> Len(scores),
         penalty_details |-> PenaltyDetails(st)]

(***************************************************************************)
(* The session: one InterviewManager driven by scored answers.             *)
(***************************************************************************)
\* answers explored after an end_interview call (the manager accepts them)
MaxAnswersAfterEnd == 0

NoStats ==
    [tab_switch_count |-> 0, multiple_faces |-> 0, face_coverings |-> 0,
     eye_coverings |-> 0, no_face_count |-> 0, total_alerts |-> 0]

\* proctoring records handed to end_interview: none, a clean session, one tab
\* switch, the face subtotal at its cap, every cap exceeded
EndStatsSamples ==
    {None,
     Some(NoStats),
     Some([NoStats EXCEPT !.tab_switch_count = 1]),
     Some([NoStats EXCEPT !.multiple_faces = 1, !.face_coverings = 10,
                          !.eye_coverings = 10, !.no_face_count = 20]),
     Some([NoStats EXCEPT !.tab_switch_count = 15, !.multiple_faces = 4,
                          !.total_alerts = 11])}

ScorerIdle ==
    /\ answer = <<>>
    /\ attempt = 0
    /\ pauses = <<>>
    /\ all_raised = FALSE
    /\ llm_response = None
    /\ eval_score = None
    /\ scorer_pc = "idle"

PenaltyIdle ==
    /\ stats = None
    /\ im_penalty = None
    /\ svc_penalty = None
    /\ penalty_details = None
    /\ penalty_pc = "idle"

NoEvaluations == [im |-> <<>>, svc |-> <<>>]

EvalIdle ==
    /\ evaluations = NoEvaluations
    /\ ev_inputs = None
    /\ tie_side = [im |-> FALSE, svc |-> FALSE]

NoRequest == [kind |-> "none", response |-> "none", question_number |-> 0]

\* no session behind the endpoints
EndpointIdle ==
    /\ question_number = 1
    /\ session_level = "easy"
    /\ is_active = TRUE
    /\ registered = FALSE
    /\ tab_switch_count = 0
    /\ proctoring_stats = NoStats
    /\ last_request = NoRequest
    /\ ended_explicitly = FALSE
    /\ requests_after_end = 0

\* next-question requests of one session explored in flight together
MaxInFlight == 2

RequestSlots == 1..MaxInFlight

\* a slot with no request in it
IdleWorker == [pc |-> "idle", score |-> 0, level |-> "easy", seen |-> 0]

WorkersIdle ==
    /\ workers = [w \in RequestSlots |-> IdleWorker]
    /\ worker_requests = 0

RegistryIdle ==
    /\ sessions = <<>>
    /\ clock = 0
    /\ last_op = None

\* no proctoring channel is open and no turn is on the thread pool
ProctorIdle ==
    /\ video_socket = [pc |-> "closed", alerts |-> {}]
    /\ monitor_socket = "closed"
    /\ events_received = NoStats
    /\ turn = [pc |-> "idle", score_file_stats |-> None]

FaultIdle == reply = None

ConcurrentIdle == WorkersIdle /\ RegistryIdle /\ ProctorIdle /\ FaultIdle

LaterIdle == EvalIdle /\ EndpointIdle /\ ConcurrentIdle

\* InterviewManager.__init__ (lines 26-58)
SessionInit ==
    /\ current_level = "easy"
    /\ consecutive_correct = 0
    /\ consecutive_incorrect = 0
    /\ level_questions_asked = 0
    /\ level_progression = <<"easy">>
    /\ technical_scores = <<>>
    /\ promotion_needed = FALSE
    /\ demotion_needed = FALSE
    /\ status = "in_progress"
    /\ final_evaluation = None
    /\ calls = <<>>
    /\ candidate_answers = <<>>
    /\ current_question_index = 1

Init == SessionInit /\ ScorerIdle /\ PenaltyIdle /\ LaterIdle

AnswersAfterEnd ==
    IF final_evaluation = None THEN 0
    ELSE Len(technical_scores) - final_evaluation[1].questions_answered

\* process_answer (lines 363-416): the score evaluate_answer_quality returned
\* is appended to technical_scores, then determine_next_level runs
ProcessAnswer(technical_score) ==
    /\ Len(technical_scores) < MaxAnswers
    /\ status = "completed" => AnswersAfterEnd < MaxAnswersAfterEnd
    /\ technical_scores' = Append(technical_scores, technical_score)
    /\ DetermineNextLevel(technical_score)
    /\ RecordAnswer(technical_score)
    /\ UNCHANGED <<status, final_evaluation>>
    /\ UNCHANGED <<scorerVars, penaltyVars, laterVars>>

\* end_interview (lines 630-654)
EndInterview(st, tie_up) ==
    /\ status' = "completed"
    /\ final_evaluation' =
           Some(CalculateFinalEvaluation(current_level, technical_scores, st, tie_up))
    /\ UNCHANGED <<current_level, consecutive_correct, consecutive_incorrect,
                   level_questions_asked, level_progression, technical_scores,
                   promotion_needed, demotion_needed, calls,
                   candidate_answers, current_question_index>>
    /\ UNCHANGED <<scorerVars, penaltyVars, laterVars>>

Next ==
    \/ \E technical_score \in ScoreSamples : ProcessAnswer(technical_score)
    \/ \E st \in EndStatsSamples, tie_up \in BOOLEAN : EndInterview(st, tie_up)

Spec == Init /\ [][Next]_vars


(***************************************************************************)
(* One evaluate_answer_quality call, with the retry loop of                *)
(* LLMRunner.generate_text under it (specification SpecScorer).            *)
(***************************************************************************)
\* the longest text model.generate_content returns
MaxResponseLen == 4

\* two digits, a letter, a blank and a punctuation mark
ResponseAlphabet == {"0", "1", "a", " ", "."}

\* the non-empty texts of a response
ResponseTexts == UNION {[1..n -> ResponseAlphabet] : n \in 1..MaxResponseLen}

\* a word of n letters
Word(n) == [i \in 1..n |-> "a"]

\* the words joined by sep
RECURSIVE JoinWith(_, _)
JoinWith(words, sep) ==
    IF words = <<>> THEN <<>>
    ELSE IF Len(words) = 1 THEN words[1]
    ELSE words[1] \o sep \o JoinWith(Tail(words), sep)

Join(words) == JoinWith(words, <<" ">>)

\* n two-letter words
Filler(n) == [i \in 1..n |-> Word(2)]

\* keywords as answers carry them: capitalised, upper case, inside a word
WordBecauseCapital == <<"B", "e", "c", "a", "u", "s", "e">>
WordApproachUpper == <<"A", "P", "P", "R", "O", "A", "C", "H">>
WordMethodology == <<"m", "e", "t", "h", "o", "d", "o", "l", "o", "g", "y">>

\* The answers explored, each with what it is by construction: its number of
\* characters, its number of words, and whether a keyword occurs in it.
AnswerPool ==
    {[text |-> Join(<<Word(4), Word(5)>>),
      chars |-> 10, words |-> 2, keyword |-> FALSE],
     [text |-> Join(<<Word(25), Word(24)>>),
      chars |-> 50, words |-> 2, keyword |-> FALSE],
     [text |-> Join(<<Word(25), Word(25)>>),
      chars |-> 51, words |-> 2, keyword |-> FALSE],
     [text |-> Join(<<Word(29), Word(30)>>),
      chars |-> 60, words |-> 2, keyword |-> FALSE],
     [text |-> Join(<<KeywordExample, Word(52)>>),
      chars |-> 60, words |-> 2, keyword |-> TRUE],
     [text |-> Join(Filler(21)),
      chars |-> 62, words |-> 21, keyword |-> FALSE],
     [text |-> Join(<<WordBecauseCapital>> \o Filler(20)),
      chars |-> 67, words |-> 21, keyword |-> TRUE],
     [text |-> Join(<<WordApproachUpper>> \o Filler(19)),
      chars |-> 65, words |-> 20, keyword |-> TRUE],
     [text |-> Join(<<WordMethodology>> \o Filler(20)),
      chars |-> 71, words |-> 21, keyword |-> TRUE],
     [text |-> JoinWith(<<KeywordMethod>> \o Filler(20), <<" ", "\n">>),
      chars |-> 86, words |-> 21, keyword |-> TRUE]}

AnswerTexts == {a.text : a \in AnswerPool}

ScorerInit ==
    /\ answer \in AnswerTexts
    /\ attempt = 0
    /\ pauses = <<>>
    /\ all_raised = FALSE
    /\ llm_response = None
    /\ eval_score = None
    /\ scorer_pc = "asking"

InitScorer == SessionInit /\ ScorerInit /\ PenaltyIdle /\ LaterIdle

\* self.llm.ask returned text (the loop of generate_text is left):
\* evaluate_answer_quality runs to its return
ScoreResponse(text, raised) ==
    /\ llm_response' = Some(text)
    /\ all_raised' = raised
    /\ eval_score' = Some(EvaluateAnswerQuality(answer, Some(text)))
    /\ scorer_pc' = "done"
    /\ attempt' = 0
    /\ UNCHANGED <<answer, pauses>>
    /\ UNCHANGED <<sessionVars, penaltyVars, laterVars>>

\* generate_content returns a response with text (lines 32-33)
GenerateReturnsText(text) ==
    /\ scorer_pc = "asking"
    /\ ScoreResponse(Strip(text), FALSE)

\* generate_content returns a response without text (lines 34-35)
GenerateReturnsNoText ==
    /\ scorer_pc = "asking"
    /\ ScoreResponse(FallbackText, FALSE)

\* mutant: the last attempt is retried as well
GenerateRaisesRetryOnceMore ==
    /\ scorer_pc = "asking"
    /\ attempt < MaxRetries
    /\ attempt' = attempt + 1
    /\ pauses' = Append(pauses, RetryPause)
    /\ UNCHANGED <<answer, all_raised, llm_response, eval_score, scorer_pc>>
    /\ UNCHANGED <<sessionVars, penaltyVars, laterVars>>

\* generate_content raises and attempts are left (lines 37-40): the loop
\* sleeps and goes round
GenerateRaisesRetry ==
    /\ scorer_pc = "asking"
    /\ attempt < MaxRetries - 1
    /\ attempt' = attempt + 1
    /\ pauses' = Append(pauses, RetryPause)
    /\ UNCHANGED <<answer, all_raised, llm_response, eval_score, scorer_pc>>
    /\ UNCHANGED <<sessionVars, penaltyVars, laterVars>>

\* generate_content raises on the last attempt (lines 41-42)
GenerateRaisesLast ==
    /\ scorer_pc = "asking"
    /\ attempt = MaxRetries - 1
    /\ ScoreResponse(FallbackText, TRUE)

NextScorer ==
    \/ \E text \in ResponseTexts : GenerateReturnsText(text)
    \/ GenerateReturnsNoText
    \/ GenerateRaisesRetry
    \/ GenerateRaisesLast

SpecScorer == InitScorer /\ [][NextScorer]_vars

(***************************************************************************)
(* One proctoring-stats record handed to the two penalty calculators       *)
(* (specification SpecPenalty).                                            *)
(***************************************************************************)
PenaltyInit ==
    /\ stats \in {Some(s) : s \in ProctoringStats}
    /\ im_penalty = None
    /\ svc_penalty = None
    /\ penalty_details = None
    /\ penalty_pc = "ready"

InitPenalty == SessionInit /\ ScorerIdle /\ PenaltyInit /\ LaterIdle

\* InterviewManager._calculate_proctoring_penalty(stats); lines 615-617 store
\* the total in the record's penalty_details when the record has that key
IMPenaltyCall ==
    /\ penalty_pc = "ready"
    /\ im_penalty = None
    /\ im_penalty' = Some(IMCalculateProctoringPenalty(stats[1]))
    /\ penalty_details' =
           IF penalty_details # None
           THEN Some(IMCalculateProctoringPenalty(stats[1]))
           ELSE penalty_details
    /\ UNCHANGED <<stats, svc_penalty, penalty_pc>>
    /\ UNCHANGED <<sessionVars, scorerVars, laterVars>>

\* ScoringService.calculate_proctoring_penalty(stats); lines 219-222 store the
\* total in the record's penalty_details
SvcPenaltyCall ==
    /\ penalty_pc = "ready"
    /\ svc_penalty = None
    /\ svc_penalty' = Some(SvcCalculateProctoringPenalty(stats[1]))
    /\ penalty_details' = Some(SvcCalculateProctoringPenalty(stats[1]))
    /\ UNCHANGED <<stats, im_penalty, penalty_pc>>
    /\ UNCHANGED <<sessionVars, scorerVars, laterVars>>

NextPenalty == IMPenaltyCall \/ SvcPenaltyCall

SpecPenalty == InitPenalty /\ [][NextPenalty]_vars

(***************************************************************************)
(* ScoringService.calculate_final_evaluation (scoring_service.py), fed the *)
(* same technical scores and final level.                                  *)
(***************************************************************************)
\* mutant: the service reads the level table of the interview manager
SvcLevelPercentOfManager(level) ==
    CASE level = "easy" -> 30
      [] level = "medium" -> 70
      [] level = "hard" -> 100
      [] OTHER -> 30

\* level_weights.get(final_level, 0.3) * 100 (lines 87-88)
SvcLevelPercent(level) ==
    CASE level = "easy" -> 30
      [] level = "medium" -> 60
      [] level = "hard" -> 100
      [] OTHER -> 30

\* 10 * base_score as a fraction: technical_avg * 0.7 + level_weight * 100 * 0.3
\* (line 94)
SvcBaseScoreFraction(level, scores) ==
    <<7 * SumSeq(scores) + 3 * SvcLevelPercent(level) * Len(scores), Len(scores)>>

\* `if proctoring_stats:` (lines 104-107)
SvcAppliedPenalty(st) ==
    IF st = None THEN 0 ELSE SvcCalculateProctoringPenalty(st[1])

\* The record of lines 127-145, or the one of lines 78-84 when no question
\* was scored
SvcCalculateFinalEvaluation(level, scores, st, tie_up) ==
    IF scores = <<>>
    THEN [final_level |-> level, technical_avg |-> 0, base_score |-> 0,
          overall_score |-> 0, proctoring_penalty |-> 0, total_questions |-> 0]
    ELSE LET b == SvcBaseScoreFraction(level, scores)
             p == SvcAppliedPenalty(st)
         IN  [final_level |-> level,
              technical_avg |-> RoundHalfEven(10 * SumSeq(scores), Len(scores)),
              base_score |-> RoundQuotient(b[1], b[2], tie_up),
              overall_score |->
                  RoundQuotient(Max(0, b[1] - 10 * p * b[2]), b[2], tie_up),
              proctoring_penalty |-> p,
              total_questions |-> Len(scores)]

(***************************************************************************)
(* The final evaluation computed repeatedly from one session state         *)
(* (specification SpecEvaluation): answers are scored, then the two        *)
(* calculators are called in any order on the same proctoring record.      *)
(***************************************************************************)
\* answers scored before the first evaluation
MaxEvaluatedAnswers == 3

\* evaluations by each calculator
MaxEvaluations == 2

EvaluationInit ==
    /\ stats \in EndStatsSamples
    /\ im_penalty = None
    /\ svc_penalty = None
    /\ penalty_details = None
    /\ penalty_pc = "idle"
    /\ evaluations = NoEvaluations
    /\ ev_inputs = None
    /\ tie_side \in [{"im", "svc"} -> BOOLEAN]

InitEvaluation ==
    SessionInit /\ ScorerIdle /\ EvaluationInit /\ EndpointIdle /\ ConcurrentIdle

\* what an evaluation reads
EvaluationInputs ==
    [level |-> current_level, scores |-> technical_scores, counts |-> stats]

AnswerBeforeEvaluation(technical_score) ==
    /\ evaluations = NoEvaluations
    /\ Len(technical_scores) < MaxEvaluatedAnswers
    /\ ProcessAnswer(technical_score)

\* InterviewManager.calculate_final_evaluation(stats)
IMEvaluate ==
    /\ Len(evaluations.im) < MaxEvaluations
    /\ evaluations' =
           [evaluations EXCEPT !.im =
               Append(@, CalculateFinalEvaluation(current_level, technical_scores,
                                                  stats, tie_side.im))]
    /\ penalty_details' =
           IF stats # None /\ penalty_details # None
           THEN Some(IMCalculateProctoringPenalty(stats[1]))
           ELSE penalty_details
    /\ ev_inputs' = IF ev_inputs = None THEN Some(EvaluationInputs) ELSE ev_inputs
    /\ UNCHANGED <<stats, im_penalty, svc_penalty, penalty_pc, tie_side>>
    /\ UNCHANGED <<sessionVars, scorerVars, endpointVars, concurrentVars>>

\* ScoringService.calculate_final_evaluation(current_level, stats)
SvcEvaluate ==
    /\ Len(evaluations.svc) < MaxEvaluations
    /\ evaluations' =
           [evaluations EXCEPT !.svc =
               Append(@, SvcCalculateFinalEvaluation(current_level, technical_scores,
                                                     stats, tie_side.svc))]
    /\ penalty_details' =
           IF stats # None /\ technical_scores # <<>>
           THEN Some(SvcCalculateProctoringPenalty(stats[1]))
           ELSE penalty_details
    /\ ev_inputs' = IF ev_inputs = None THEN Some(EvaluationInputs) ELSE ev_inputs
    /\ UNCHANGED <<stats, im_penalty, svc_penalty, penalty_pc, tie_side>>
    /\ UNCHANGED <<sessionVars, scorerVars, endpointVars, concurrentVars>>

NextEvaluation ==
    \/ \E technical_score \in ScoreSamples : AnswerBeforeEvaluation(technical_score)
    \/ IMEvaluate
    \/ SvcEvaluate

SpecEvaluation == InitEvaluation /\ [][NextEvaluation]_vars

(***************************************************************************)
(* One session behind the HTTP and WebSocket endpoints of main.py          *)
(* (specification SpecTurns).                                              *)
(***************************************************************************)
\* INTERVIEW_CONFIG["max_questions"] (config.py line 25)
max_questions == 9

\* requests explored after the session completed
MaxRequestsAfterEnd == 1

\* proctoring events explored (tab switches plus alerts)
MaxProctoringEvents == 1

\* scores evaluate_answer_quality returns in a turn: a failing and a passing one
TurnScores == {59, 75}

\* what a video frame shows to the detectors: whether cv2.imdecode reads it,
\* the number of faces the face detector finds, whether more than 3 seconds
\* have passed since last_face_time when the frame without a face is judged,
\* whether the face mesh finds landmarks, whether the face is darker than
\* 0.6 of the previous frame's and whether both eye regions are dark
FrameSamples ==
    [decodable : BOOLEAN, faces : 0..2, late : BOOLEAN, mesh : BOOLEAN,
     darker : BOOLEAN, eyes_dark : BOOLEAN]

\* FaceProctor.__init__ (lines 31-60)
FreshProctor ==
    [face_present |-> FALSE,
     calibration_complete |-> FALSE,
     calibration_frames |-> 0,
     face_cover_counter |-> 0,
     eye_cover_counter |-> 0,
     face_cover_threshold |-> 15,
     eye_cover_threshold |-> 10,
     brightness_known |-> FALSE]

\* a FaceProctor that has seen its 30 calibration frames and since then a
\* darkened face with dark eyes in every frame, one frame short of either
\* threshold
SeasonedProctor ==
    [FreshProctor EXCEPT !.face_present = TRUE,
                         !.calibration_complete = TRUE,
                         !.calibration_frames = 30,
                         !.face_cover_counter = 14,
                         !.eye_cover_counter = 9,
                         !.brightness_known = TRUE]

\* check_face_eye_covering_improved and check_eye_covering (lines 110-236)
\* on a frame with landmarks: the proctor afterwards and the alerts added
CheckFaceEyeCovering(proctor, frame) ==
    LET dropped == proctor.brightness_known /\ frame.darker
        face_counter ==
            IF ~proctor.brightness_known THEN proctor.face_cover_counter
            ELSE IF frame.darker THEN proctor.face_cover_counter + 1
            ELSE Max(0, proctor.face_cover_counter - 1)
        eye_counter ==
            IF frame.eyes_dark THEN proctor.eye_cover_counter + 1
            ELSE Max(0, proctor.eye_cover_counter - 1)
    IN  [proctor |-> [proctor EXCEPT !.face_cover_counter = face_counter,
                                     !.eye_cover_counter = eye_counter,
                                     !.brightness_known = TRUE],
         alerts |->
             (IF dropped /\ face_counter >= proctor.face_cover_threshold
              THEN {"FACE COVERED"} ELSE {})
             \cup (IF frame.eyes_dark /\ eye_counter >= proctor.eye_cover_threshold
                   THEN {"EYES COVERED"} ELSE {})]

\* FaceProctor.check_rules(frame) (lines 62-108): the proctor afterwards and
\* the alerts returned
CheckRules(proctor, frame) ==
    LET crowd == IF frame.faces > 1 THEN {"MULTIPLE PEOPLE DETECTED"} ELSE {}
    IN  IF frame.faces = 0
        THEN [proctor |-> [proctor EXCEPT !.face_present = FALSE,
                                          !.face_cover_counter = 0,
                                          !.eye_cover_counter = 0],
              alerts |-> IF frame.late THEN {"NO FACE DETECTED"} ELSE {}]
        ELSE IF ~frame.mesh
        THEN [proctor |-> [proctor EXCEPT !.face_present = TRUE],
              alerts |-> crowd]
        ELSE IF ~proctor.calibration_complete
        THEN [proctor |->
                  [proctor EXCEPT
                      !.face_present = TRUE,
                      !.calibration_frames = @ + 1,
                      !.calibration_complete = (proctor.calibration_frames + 1 >= 30)],
              alerts |-> crowd]
        ELSE LET covering ==
                     CheckFaceEyeCovering([proctor EXCEPT !.face_present = TRUE],
                                          frame)
             IN  [proctor |-> covering.proctor,
                  alerts |-> crowd \cup covering.alerts]

\* mutant: the frames of a session are judged by one FaceProctor that has
\* long been calibrated
DetectFaceProctoringSeasoned(frame) ==
    IF ~frame.decodable THEN [calibration_complete |-> FALSE, alerts |-> {}]
    ELSE LET checked == CheckRules(SeasonedProctor, frame)
         IN  [calibration_complete |-> checked.proctor.calibration_complete,
              alerts |-> checked.alerts]

\* detect_face_proctoring(frame_data) (lines 243-277): a FaceProctor is built
\* for the frame; the alerts and the calibration flag of the result
DetectFaceProctoring(frame) ==
    IF ~frame.decodable THEN [calibration_complete |-> FALSE, alerts |-> {}]
    ELSE LET checked == CheckRules(FreshProctor, frame)
         IN  [calibration_complete |-> checked.proctor.calibration_complete,
              alerts |-> checked.alerts]

\* the frame results with alerts
AlertedResults ==
    {r \in {DetectFaceProctoring(frame) : frame \in FrameSamples} : r.alerts # {}}

\* the alerts of one video frame (detect_face_proctoring), when it has any
AlertSamples == {r.alerts : r \in AlertedResults}

\* ReliableInterviewSession.__init__ (lines 326-357) and its registration by
\* start_interview (line 902)
EndpointInit ==
    /\ question_number = 1
    /\ session_level = "easy"
    /\ is_active = TRUE
    /\ registered = TRUE
    /\ tab_switch_count = 0
    /\ proctoring_stats = NoStats
    /\ last_request = [kind |-> "start", response |-> "question",
                       question_number |-> 1]
    /\ ended_explicitly = FALSE
    /\ requests_after_end = 0

InitTurns ==
    /\ SessionInit /\ ScorerIdle /\ PenaltyIdle /\ EvalIdle /\ EndpointInit
    /\ ConcurrentIdle

\* mutant: the session is ended with the counts its last score file shows
CollectedStatsOfScoreFile ==
    IF turn.score_file_stats = None THEN NoStats ELSE turn.score_file_stats[1]

\* the record the endpoints hand to end_interview (lines 964-971, 1023-1030)
CollectedStats ==
    [tab_switch_count |-> tab_switch_count,
     multiple_faces |-> proctoring_stats.multiple_faces,
     face_coverings |-> proctoring_stats.face_coverings,
     eye_coverings |-> proctoring_stats.eye_coverings,
     no_face_count |-> proctoring_stats.no_face_count,
     total_alerts |-> proctoring_stats.total_alerts]

\* a request is counted once the session has completed
CountRequest ==
    /\ status = "completed" => requests_after_end < MaxRequestsAfterEnd
    /\ requests_after_end' =
           IF status = "completed" THEN requests_after_end + 1
           ELSE requests_after_end

\* mutant: the session completes on reaching the budget
BudgetExhaustedOnReaching(number) == number >= max_questions

\* session.question_number > INTERVIEW_CONFIG["max_questions"] (line 962)
BudgetExhausted(number) == number > max_questions

\* next_question after process_video_answer returned (lines 956-1005): the
\* counter has advanced; past the budget the session is ended with the
\* collected stats and removed from active_sessions
FinishTurn(kind, level_after, scores_after, tie_up) ==
    /\ question_number' = question_number + 1
    /\ IF BudgetExhausted(question_number + 1)
       THEN /\ is_active' = FALSE
            /\ status' = "completed"
            /\ final_evaluation' =
                   Some(CalculateFinalEvaluation(level_after, scores_after,
                                                 Some(CollectedStats), tie_up))
            /\ registered' = FALSE
            /\ last_request' = [kind |-> kind, response |-> "interview_completed",
                                question_number |-> question_number + 1]
       ELSE /\ UNCHANGED <<is_active, status, final_evaluation, registered>>
            /\ last_request' = [kind |-> kind, response |-> "next_question",
                                question_number |-> question_number + 1]

\* a turn that is scored: process_video_answer lines 594-652 with
\* process_answer, then the rest of next_question
ScoredTurn(kind, technical_score, tie_up) ==
    /\ registered
    /\ CountRequest
    /\ technical_scores' = Append(technical_scores, technical_score)
    /\ DetermineNextLevel(technical_score)
    /\ RecordAnswer(technical_score)
    /\ session_level' = current_level'
    /\ FinishTurn(kind, current_level', technical_scores', tie_up)
    /\ UNCHANGED <<tab_switch_count, proctoring_stats, ended_explicitly>>
    /\ UNCHANGED outsideTurns

\* next-question request whose video is transcribed
NextQuestionAnswered(technical_score, tie_up) ==
    ScoredTurn("answered", technical_score, tie_up)

\* mutant: a turn without an answer is scored 0
NextQuestionSkippedScoredZero(tie_up) == ScoredTurn("skipped", 0, tie_up)

\* next-question request without a usable answer (no video, no audio, no
\* transcription): process_video_answer lines 504-592, whose three branches
\* differ in the transcript file only, with get_next_question_without_answer
NextQuestionSkipped(tie_up) ==
    /\ registered
    /\ CountRequest
    /\ FinishTurn("skipped", current_level, technical_scores, tie_up)
    /\ current_question_index' = current_question_index + 1
    /\ UNCHANGED <<current_level, consecutive_correct, consecutive_incorrect,
                   level_questions_asked, level_progression, technical_scores,
                   promotion_needed, demotion_needed, calls, candidate_answers>>
    /\ UNCHANGED <<session_level, tab_switch_count, proctoring_stats,
                   ended_explicitly>>
    /\ UNCHANGED outsideTurns

\* mutant: a next-question request for a session id that is not in
\* active_sessions still advances the counter of the session object
RequestNotFoundCounting(kind) ==
    /\ ~registered
    /\ CountRequest
    /\ last_request' = [kind |-> kind, response |-> "not_found",
                        question_number |-> question_number]
    /\ question_number' =
           IF kind = "next_question" THEN question_number + 1 ELSE question_number
    /\ UNCHANGED <<session_level, is_active, registered,
                   tab_switch_count, proctoring_stats, ended_explicitly>>
    /\ UNCHANGED <<sessionVars, outsideTurns>>

\* a request for a session id that is not in active_sessions (lines 925-926,
\* 1049, 1108)
RequestNotFound(kind) ==
    /\ ~registered
    /\ CountRequest
    /\ last_request' = [kind |-> kind, response |-> "not_found",
                        question_number |-> question_number]
    /\ UNCHANGED <<question_number, session_level, is_active, registered,
                   tab_switch_count, proctoring_stats, ended_explicitly>>
    /\ UNCHANGED <<sessionVars, outsideTurns>>

\* the end endpoint (lines 1015-1047) with ReliableInterviewSession.end_interview
\* and InterviewManager.end_interview; the session stays in active_sessions
EndRequest(tie_up) ==
    /\ registered
    /\ CountRequest
    /\ is_active' = FALSE
    /\ status' = "completed"
    /\ final_evaluation' =
           Some(CalculateFinalEvaluation(current_level, technical_scores,
                                         Some(CollectedStats), tie_up))
    /\ ended_explicitly' = TRUE
    /\ last_request' = [kind |-> "end", response |-> "final_feedback",
                        question_number |-> question_number]
    /\ UNCHANGED <<current_level, consecutive_correct, consecutive_incorrect,
                   level_questions_asked, level_progression, technical_scores,
                   promotion_needed, demotion_needed, calls,
                   candidate_answers, current_question_index>>
    /\ UNCHANGED <<question_number, session_level, registered, tab_switch_count,
                   proctoring_stats>>
    /\ UNCHANGED outsideTurns

ProctoringEvents == tab_switch_count + proctoring_stats.total_alerts

\* monitor_stream: a tab_switch message (lines 835-840)
TabSwitch ==
    /\ registered
    /\ is_active
    /\ ProctoringEvents < MaxProctoringEvents
    /\ tab_switch_count' = tab_switch_count + 1
    /\ proctoring_stats' =
           [proctoring_stats EXCEPT !.tab_switch_count = tab_switch_count + 1]
    /\ last_request' = [kind |-> "tab_switch", response |-> "tab_warning",
                        question_number |-> question_number]
    /\ UNCHANGED <<question_number, session_level, is_active, registered,
                   ended_explicitly, requests_after_end>>
    /\ UNCHANGED <<sessionVars, outsideTurns>>

\* mutant: the category counters hold the alerts of the latest frame
UpdateProctoringStatsLatest(ps, alerts) ==
    LET Bump(name) == IF name \in alerts THEN 1 ELSE 0
    IN  [ps EXCEPT
            !.multiple_faces = Bump("MULTIPLE PEOPLE DETECTED"),
            !.face_coverings = Bump("FACE COVERED"),
            !.eye_coverings = Bump("EYES COVERED"),
            !.no_face_count = Bump("NO FACE DETECTED"),
            !.total_alerts = @ + Cardinality(alerts)]

\* mutant: total_alerts counts the frames handled, not their alerts
UpdateProctoringStatsPerFrame(ps, alerts) ==
    LET Bump(name) == IF name \in alerts THEN 1 ELSE 0
    IN  [ps EXCEPT
            !.multiple_faces = @ + Bump("MULTIPLE PEOPLE DETECTED"),
            !.face_coverings = @ + Bump("FACE COVERED"),
            !.eye_coverings = @ + Bump("EYES COVERED"),
            !.no_face_count = @ + Bump("NO FACE DETECTED"),
            !.total_alerts = @ + 1]

\* update_proctoring_stats(alerts) (lines 756-769)
UpdateProctoringStats(ps, alerts) ==
    LET Bump(name) == IF name \in alerts THEN 1 ELSE 0
    IN  [ps EXCEPT
            !.multiple_faces = @ + Bump("MULTIPLE PEOPLE DETECTED"),
            !.face_coverings = @ + Bump("FACE COVERED"),
            !.eye_coverings = @ + Bump("EYES COVERED"),
            !.no_face_count = @ + Bump("NO FACE DETECTED"),
            !.total_alerts = @ + Cardinality(alerts)]

\* video_stream: a video_frame message whose detection raised alerts (lines
\* 788-802)
FaceAlert(alerts) ==
    /\ registered
    /\ is_active
    /\ ProctoringEvents < MaxProctoringEvents
    /\ proctoring_stats' = UpdateProctoringStats(proctoring_stats, alerts)
    /\ last_request' = [kind |-> "video_frame", response |-> "proctoring_result",
                        question_number |-> question_number]
    /\ UNCHANGED <<question_number, session_level, is_active, registered,
                   tab_switch_count, ended_explicitly, requests_after_end>>
    /\ UNCHANGED <<sessionVars, outsideTurns>>

NextTurns ==
    \/ \E technical_score \in TurnScores, tie_up \in BOOLEAN :
           NextQuestionAnswered(technical_score, tie_up)
    \/ \E tie_up \in BOOLEAN : NextQuestionSkipped(tie_up)
    \/ \E kind \in {"next_question", "end", "proctoring_stats"} :
           RequestNotFound(kind)
    \/ \E tie_up \in BOOLEAN : EndRequest(tie_up)
    \/ TabSwitch
    \/ \E alerts \in AlertSamples : FaceAlert(alerts)

SpecTurns == InitTurns /\ [][NextTurns]_vars

(***************************************************************************)
(* Next-question requests of one session running together (specification   *)
(* SpecWorkers).  next_question hands process_video_answer to the thread    *)
(* pool (main.py lines 952-954, executor of line 320) and awaits it, so a   *)
(* second request of the same session is accepted while the first turn is   *)
(* still in its thread.  A turn is followed through the statements that     *)
(* touch the session: the append of the score, the level transition, the    *)
(* read and the write of question_number += 1, and the response.            *)
(***************************************************************************)
\* requests explored per behaviour
MaxWorkerRequests == 3

InitWorkers ==
    /\ SessionInit /\ ScorerIdle /\ PenaltyIdle /\ EvalIdle /\ EndpointInit
    /\ WorkersIdle /\ RegistryIdle /\ ProctorIdle /\ FaultIdle

\* next_question up to run_in_executor (lines 925-954)
SubmitTurn(w) ==
    /\ registered
    /\ workers[w].pc = "idle"
    /\ worker_requests < MaxWorkerRequests
    /\ workers' = [workers EXCEPT ![w] = [IdleWorker EXCEPT !.pc = "running"]]
    /\ worker_requests' = worker_requests + 1
    /\ UNCHANGED <<sessionVars, scorerVars, penaltyVars, evalVars, endpointVars,
                   registryVars,
                   proctorVars, faultVars>>

\* process_answer lines 368-369: the score is appended
WorkerScores(w, technical_score) ==
    /\ workers[w].pc = "running"
    /\ technical_scores' = Append(technical_scores, technical_score)
    /\ workers' = [workers EXCEPT ![w].pc = "scored", ![w].score = technical_score]
    /\ UNCHANGED <<current_level, consecutive_correct, consecutive_incorrect,
                   level_questions_asked, level_progression, promotion_needed,
                   demotion_needed, status, final_evaluation, calls,
                   candidate_answers, current_question_index>>
    /\ UNCHANGED <<worker_requests, scorerVars, penaltyVars, evalVars, endpointVars,
                   registryVars,
                   proctorVars, faultVars>>

\* process_answer line 372: determine_next_level(technical_score)
WorkerLevels(w) ==
    /\ workers[w].pc = "scored"
    /\ DetermineNextLevel(workers[w].score)
    /\ RecordAnswer(workers[w].score)
    /\ workers' = [workers EXCEPT ![w].pc = "levelled", ![w].level = current_level']
    /\ UNCHANGED <<technical_scores, status, final_evaluation>>
    /\ UNCHANGED <<worker_requests, scorerVars, penaltyVars, evalVars, endpointVars,
                   registryVars,
                   proctorVars, faultVars>>

\* process_video_answer line 635, the read of self.question_number
WorkerReadsCounter(w) ==
    /\ workers[w].pc = "levelled"
    /\ workers' = [workers EXCEPT ![w].pc = "read", ![w].seen = question_number]
    /\ UNCHANGED <<worker_requests, sessionVars, scorerVars, penaltyVars, evalVars,
                   endpointVars, registryVars,
                   proctorVars, faultVars>>

\* process_video_answer lines 635-636, the write of self.question_number and
\* of self.current_level
WorkerWritesCounter(w) ==
    /\ workers[w].pc = "read"
    /\ question_number' = workers[w].seen + 1
    /\ session_level' = workers[w].level
    /\ workers' = [workers EXCEPT ![w].pc = "updated"]
    /\ UNCHANGED <<is_active, registered, tab_switch_count, proctoring_stats,
                   last_request, ended_explicitly, requests_after_end>>
    /\ UNCHANGED <<worker_requests, sessionVars, scorerVars, penaltyVars, evalVars,
                   registryVars,
                   proctorVars, faultVars>>

\* next_question after the await (lines 956-1012): past the budget the
\* session is ended and removed; removing it a second time raises and the
\* request answers with an error
WorkerResponds(w, tie_up) ==
    /\ workers[w].pc = "updated"
    /\ workers' = [workers EXCEPT ![w] = IdleWorker]
    /\ IF BudgetExhausted(question_number)
       THEN /\ is_active' = FALSE
            /\ status' = "completed"
            /\ final_evaluation' =
                   Some(CalculateFinalEvaluation(current_level, technical_scores,
                                                 Some(CollectedStats), tie_up))
            /\ registered' = FALSE
            /\ last_request' =
                   [kind |-> "answered",
                    response |-> IF registered THEN "interview_completed"
                                 ELSE "error",
                    question_number |-> question_number]
       ELSE /\ UNCHANGED <<is_active, status, final_evaluation, registered>>
            /\ last_request' = [kind |-> "answered", response |-> "next_question",
                                question_number |-> question_number]
    /\ UNCHANGED <<current_level, consecutive_correct, consecutive_incorrect,
                   level_questions_asked, level_progression, technical_scores,
                   promotion_needed, demotion_needed, calls,
                   candidate_answers, current_question_index>>
    /\ UNCHANGED <<question_number, session_level, tab_switch_count,
                   proctoring_stats, ended_explicitly, requests_after_end>>
    /\ UNCHANGED <<worker_requests, scorerVars, penaltyVars, evalVars, registryVars,
                   proctorVars, faultVars>>

NextWorkers ==
    \/ \E w \in RequestSlots : SubmitTurn(w)
    \/ \E w \in RequestSlots, technical_score \in TurnScores :
           WorkerScores(w, technical_score)
    \/ \E w \in RequestSlots : WorkerLevels(w)
    \/ \E w \in RequestSlots : WorkerReadsCounter(w)
    \/ \E w \in RequestSlots : WorkerWritesCounter(w)
    \/ \E w \in RequestSlots, tie_up \in BOOLEAN : WorkerResponds(w, tie_up)

SpecWorkers == InitWorkers /\ [][NextWorkers]_vars

(***************************************************************************)
(* Several sessions in one process (specification SpecRegistry): sessions   *)
(* are started at clock seconds and then operated on through the endpoints, *)
(* each request naming its session id.                                      *)
(***************************************************************************)
\* sessions started per behaviour
MaxSessions == 2

\* seconds the clock advances
MaxClock == 1

\* turns explored per session
MaxRegistryTurns == 2

\* job_role values of start requests: "qa dev" and "pm"
JobRoles == {<<"q", "a", " ", "d", "e", "v">>, <<"p", "m">>}

\* job_role.replace(' ', '_') (interview_manager.py line 20)
ReplaceBlanks(t) == [i \in 1..Len(t) |-> IF t[i] = " " THEN "_" ELSE t[i]]

\* f"{job_role.replace(' ', '_')}_{int(time.time())}" (interview_manager.py
\* line 20): the role and the second, nothing else
InterviewId(job_role, now) == <<ReplaceBlanks(job_role), now>>

\* f"session_{int(time.time())}_{uuid.uuid4().hex[:8]}" (main.py line 896)
SessionId(now, token) == <<"session", now, token>>

\* uuid.uuid4().hex[:8] of the next start request: the draws are taken to be
\* pairwise distinct, the k-th draw is k
NextToken == Len(sessions) + 1

\* ReliableInterviewSession.__init__ and InterviewManager.__init__: every
\* field is created anew for the object
NewSession(job_role, now, token) ==
    [session_id |-> SessionId(now, token),
     interview_id |-> InterviewId(job_role, now),
     job_role |-> job_role,
     current_level |-> "easy",
     consecutive_correct |-> 0,
     consecutive_incorrect |-> 0,
     level_questions_asked |-> 0,
     level_progression |-> <<"easy">>,
     technical_scores |-> <<>>,
     status |-> "in_progress",
     final_evaluation |-> None,
     question_number |-> 1,
     session_level |-> "easy",
     is_active |-> TRUE,
     registered |-> TRUE,
     tab_switch_count |-> 0,
     proctoring_stats |-> NoStats]

\* mutant: a request is served by the session created last
LatestSession(id) == Len(sessions)

\* active_sessions[session_id]: the object registered under the id
SessionOf(id) ==
    CHOOSE i \in 1..Len(sessions) :
        sessions[i].session_id = id /\ sessions[i].registered

RegisteredIds ==
    {sessions[i].session_id : i \in {j \in 1..Len(sessions) : sessions[j].registered}}

\* process_answer on a session object: the score is appended and
\* determine_next_level runs on the object's own fields
ScoredOn(r, technical_score) ==
    LET cc == UpdatedCorrect(technical_score, r.consecutive_correct)
        ci == UpdatedIncorrect(technical_score, r.consecutive_incorrect)
        promote == should_promote_level(r.current_level, cc)
        demote == (~promote) /\ should_demote_level(r.current_level, ci)
        new_level == IF promote THEN PromotionTarget(r.current_level)
                     ELSE IF demote THEN DemotionTarget(r.current_level)
                     ELSE r.current_level
        changed == promote \/ demote
    IN  [r EXCEPT
            !.technical_scores = Append(@, technical_score),
            !.consecutive_correct = cc,
            !.consecutive_incorrect = ci,
            !.current_level = new_level,
            !.session_level = new_level,
            !.level_progression = IF changed THEN Append(@, new_level) ELSE @,
            !.level_questions_asked = IF changed THEN 0 ELSE @ + 1]

\* the record the endpoints collect from a session object
CollectedFrom(r) ==
    [r.proctoring_stats EXCEPT !.tab_switch_count = r.tab_switch_count]

\* InterviewManager.end_interview on a session object
EndedOn(r, tie_up) ==
    [r EXCEPT
        !.is_active = FALSE,
        !.status = "completed",
        !.final_evaluation =
            Some(CalculateFinalEvaluation(r.current_level, r.technical_scores,
                                          Some(CollectedFrom(r)), tie_up))]

\* the rest of a turn: the counter advances; past the budget the session is
\* ended and removed from active_sessions
FinishedOn(r, tie_up) ==
    LET counted == [r EXCEPT !.question_number = @ + 1]
    IN  IF BudgetExhausted(counted.question_number)
        THEN [EndedOn(counted, tie_up) EXCEPT !.registered = FALSE]
        ELSE counted

InitRegistry ==
    /\ SessionInit /\ ScorerIdle /\ PenaltyIdle /\ EvalIdle /\ EndpointIdle
    /\ WorkersIdle /\ RegistryIdle /\ ProctorIdle /\ FaultIdle

outsideRegistry ==
    <<sessionVars, scorerVars, penaltyVars, evalVars, endpointVars, workerVars,
      proctorVars, faultVars>>

\* the clock reaches the next second
Tick ==
    /\ clock < MaxClock
    /\ clock' = clock + 1
    /\ last_op' = None
    /\ UNCHANGED <<sessions, outsideRegistry>>

\* start_interview (main.py lines 886-902)
StartInterview(job_role) ==
    /\ Len(sessions) < MaxSessions
    /\ sessions' = Append(sessions, NewSession(job_role, clock, NextToken))
    /\ last_op' = Some(SessionId(clock, NextToken))
    /\ UNCHANGED <<clock, outsideRegistry>>

\* an operation on the session registered under id replaces that object's
\* fields
Operate(id, after) ==
    /\ sessions' = [sessions EXCEPT ![SessionOf(id)] = after]
    /\ last_op' = Some(id)
    /\ UNCHANGED <<clock, outsideRegistry>>

\* next_question with an answer, for the session named by the request
RegistryAnswered(id, technical_score, tie_up) ==
    /\ sessions[SessionOf(id)].question_number - 1 < MaxRegistryTurns
    /\ Operate(id, FinishedOn(ScoredOn(sessions[SessionOf(id)], technical_score),
                              tie_up))

\* monitor_stream, a tab switch reported for the session of the socket
RegistryTabSwitch(id) ==
    /\ sessions[SessionOf(id)].is_active
    /\ sessions[SessionOf(id)].tab_switch_count
           + sessions[SessionOf(id)].proctoring_stats.total_alerts
       < MaxProctoringEvents
    /\ Operate(id, [sessions[SessionOf(id)] EXCEPT
                        !.tab_switch_count = @ + 1,
                        !.proctoring_stats.tab_switch_count =
                            sessions[SessionOf(id)].tab_switch_count + 1])

\* video_stream, a frame with alerts for the session of the socket
RegistryFaceAlert(id, alerts) ==
    /\ sessions[SessionOf(id)].is_active
    /\ sessions[SessionOf(id)].tab_switch_count
           + sessions[SessionOf(id)].proctoring_stats.total_alerts
       < MaxProctoringEvents
    /\ Operate(id, [sessions[SessionOf(id)] EXCEPT
                        !.proctoring_stats = UpdateProctoringStats(@, alerts)])

NextRegistry ==
    \/ Tick
    \/ \E job_role \in JobRoles : StartInterview(job_role)
    \/ \E id \in RegisteredIds, technical_score \in TurnScores, tie_up \in BOOLEAN :
           RegistryAnswered(id, technical_score, tie_up)
    \/ \E id \in RegisteredIds : RegistryTabSwitch(id)
    \/ \E id \in RegisteredIds, alerts \in AlertSamples : RegistryFaceAlert(id, alerts)

SpecRegistry == InitRegistry /\ [][NextRegistry]_vars

(***************************************************************************)
(* The proctoring channels of one session next to its turns (specification *)
(* SpecProctoring).  video_stream and monitor_stream are coroutines of the  *)
(* event loop: each tests session.is_active, awaits a message and handles   *)
(* it.  A video frame is analysed on the thread pool (lines 795-797) and    *)
(* its alerts are applied back on the event loop (line 801); a tab switch   *)
(* is applied where it is received (lines 839-840).  A next-question        *)
(* request runs process_video_answer on the thread pool, which reads        *)
(* proctoring_stats for its score file (line 625) and writes none of the    *)
(* counters; the rest of the request runs on the event loop again.          *)
(***************************************************************************)
\* proctoring events explored (tab switches plus alerts)
MaxChannelEvents == 3

\* the score of every answer of the session
ProctoredScores == {75}

\* what detect_face_proctoring returns for a frame: no alert or some alerts
FrameAlerts == AlertSamples \cup {{}}

InitProctoring ==
    /\ SessionInit /\ ScorerIdle /\ PenaltyIdle /\ EvalIdle /\ EndpointInit
    /\ WorkersIdle /\ RegistryIdle /\ FaultIdle
    /\ video_socket = [pc |-> "waiting", alerts |-> {}]
    /\ monitor_socket = "waiting"
    /\ events_received = NoStats
    /\ turn = [pc |-> "idle", score_file_stats |-> None]

outsideProctoring ==
    <<scorerVars, penaltyVars, evalVars, workerVars, registryVars, faultVars>>

levelVars ==
    <<current_level, consecutive_correct, consecutive_incorrect,
      level_questions_asked, level_progression, technical_scores,
      promotion_needed, demotion_needed, calls, candidate_answers>>

\* `while session.is_active:` (lines 788, 835), reached after a message
AfterMessage == IF is_active THEN "waiting" ELSE "closed"

\* the events of one frame result, counted alert by alert
FrameEvents(received, alerts) ==
    [tab_switch_count |-> received.tab_switch_count,
     multiple_faces |->
         received.multiple_faces
             + Cardinality(alerts \cap {"MULTIPLE PEOPLE DETECTED"}),
     face_coverings |->
         received.face_coverings + Cardinality(alerts \cap {"FACE COVERED"}),
     eye_coverings |->
         received.eye_coverings + Cardinality(alerts \cap {"EYES COVERED"}),
     no_face_count |->
         received.no_face_count + Cardinality(alerts \cap {"NO FACE DETECTED"}),
     total_alerts |-> received.total_alerts + Cardinality(alerts)]

ChannelEvents == events_received.tab_switch_count + events_received.total_alerts

\* video_stream receives a video_frame message and hands the frame to the
\* thread pool (lines 789-797); alerts is what the detection will return
VideoFrameArrives(alerts) ==
    /\ video_socket.pc = "waiting"
    /\ ChannelEvents + Cardinality(alerts) <= MaxChannelEvents
    /\ video_socket' = [pc |-> "detecting", alerts |-> alerts]
    /\ UNCHANGED <<monitor_socket, events_received, turn>>
    /\ UNCHANGED <<sessionVars, endpointVars, outsideProctoring>>

\* the detection has returned: update_proctoring_stats on the event loop
\* (lines 800-802), the response, and the loop test
VideoFrameResult ==
    /\ video_socket.pc = "detecting"
    /\ proctoring_stats' = UpdateProctoringStats(proctoring_stats, video_socket.alerts)
    /\ events_received' = FrameEvents(events_received, video_socket.alerts)
    /\ video_socket' = [pc |-> AfterMessage, alerts |-> {}]
    /\ last_request' = [kind |-> "video_frame", response |-> "proctoring_result",
                        question_number |-> question_number]
    /\ UNCHANGED <<question_number, session_level, is_active, registered,
                   tab_switch_count, ended_explicitly, requests_after_end>>
    /\ UNCHANGED <<monitor_socket, turn>>
    /\ UNCHANGED <<sessionVars, outsideProctoring>>

\* monitor_stream receives a tab_switch message (lines 836-849)
TabSwitchMessage ==
    /\ monitor_socket = "waiting"
    /\ ChannelEvents < MaxChannelEvents
    /\ tab_switch_count' = tab_switch_count + 1
    /\ proctoring_stats' =
           [proctoring_stats EXCEPT !.tab_switch_count = tab_switch_count + 1]
    /\ events_received' = [events_received EXCEPT !.tab_switch_count = @ + 1]
    /\ monitor_socket' = AfterMessage
    /\ last_request' = [kind |-> "tab_switch", response |-> "tab_warning",
                        question_number |-> question_number]
    /\ UNCHANGED <<question_number, session_level, is_active, registered,
                   ended_explicitly, requests_after_end>>
    /\ UNCHANGED <<video_socket, turn>>
    /\ UNCHANGED <<sessionVars, outsideProctoring>>

\* next_question up to run_in_executor (lines 925-954)
TurnSubmitted ==
    /\ registered
    /\ turn.pc = "idle"
    /\ turn' = [turn EXCEPT !.pc = "running"]
    /\ UNCHANGED <<video_socket, monitor_socket, events_received>>
    /\ UNCHANGED <<sessionVars, endpointVars, outsideProctoring>>

\* process_video_answer on the thread pool (lines 594-652): the answer is
\* scored, the score file is written with proctoring_stats as they are, the
\* counter and the level of the session are updated
TurnProcessed(technical_score) ==
    /\ turn.pc = "running"
    /\ technical_scores' = Append(technical_scores, technical_score)
    /\ DetermineNextLevel(technical_score)
    /\ RecordAnswer(technical_score)
    /\ turn' = [pc |-> "returned", score_file_stats |-> Some(proctoring_stats)]
    /\ question_number' = question_number + 1
    /\ session_level' = current_level'
    /\ UNCHANGED <<status, final_evaluation>>
    /\ UNCHANGED <<is_active, registered, tab_switch_count, proctoring_stats,
                   last_request, ended_explicitly, requests_after_end>>
    /\ UNCHANGED <<video_socket, monitor_socket, events_received>>
    /\ UNCHANGED outsideProctoring

\* the session is ended with the counts collected at this moment (lines
\* 964-974, 1023-1033)
EndWithCollectedStats(tie_up) ==
    /\ is_active' = FALSE
    /\ status' = "completed"
    /\ final_evaluation' =
           Some(CalculateFinalEvaluation(current_level, technical_scores,
                                         Some(CollectedStats), tie_up))

\* next_question after the await (lines 956-1005), on the event loop
TurnResponds(tie_up) ==
    /\ turn.pc = "returned"
    /\ turn' = [turn EXCEPT !.pc = "idle"]
    /\ IF BudgetExhausted(question_number)
       THEN /\ EndWithCollectedStats(tie_up)
            /\ registered' = FALSE
            /\ last_request' = [kind |-> "answered",
                                response |-> "interview_completed",
                                question_number |-> question_number]
       ELSE /\ UNCHANGED <<is_active, status, final_evaluation, registered>>
            /\ last_request' = [kind |-> "answered", response |-> "next_question",
                                question_number |-> question_number]
    /\ UNCHANGED <<levelVars, current_question_index>>
    /\ UNCHANGED <<question_number, session_level, tab_switch_count,
                   proctoring_stats, ended_explicitly, requests_after_end>>
    /\ UNCHANGED <<video_socket, monitor_socket, events_received>>
    /\ UNCHANGED outsideProctoring

\* the end endpoint (lines 1015-1047), on the event loop; one explicit end is
\* explored
EndWhileProctored(tie_up) ==
    /\ registered
    /\ ~ended_explicitly
    /\ EndWithCollectedStats(tie_up)
    /\ ended_explicitly' = TRUE
    /\ last_request' = [kind |-> "end", response |-> "final_feedback",
                        question_number |-> question_number]
    /\ UNCHANGED <<levelVars, current_question_index>>
    /\ UNCHANGED <<question_number, session_level, registered, tab_switch_count,
                   proctoring_stats, requests_after_end>>
    /\ UNCHANGED proctorVars
    /\ UNCHANGED outsideProctoring

\* penalty_estimate of get_proctoring_stats (lines 1061-1078)
EstimatedPenalty(switches, ps) ==
    Min(Min(switches * 2, 20)
            + Min(ps.multiple_faces * 15, 30)
            + Min(ps.face_coverings * 5, 25)
            + Min(ps.eye_coverings * 5, 25)
            + Min(ps.no_face_count * 2, 15)
            + Min(ps.total_alerts * 1, 10),
        70)

\* the proctoring-stats endpoint (lines 1054-1108), on the event loop
ProctoringStatsRequest ==
    /\ registered
    /\ last_request' =
           [kind |-> "proctoring_stats", response |-> "stats",
            question_number |-> question_number,
            estimated_penalty |-> EstimatedPenalty(tab_switch_count, proctoring_stats)]
    /\ UNCHANGED <<question_number, session_level, is_active, registered,
                   tab_switch_count, proctoring_stats, ended_explicitly,
                   requests_after_end>>
    /\ UNCHANGED proctorVars
    /\ UNCHANGED <<sessionVars, outsideProctoring>>

NextProctoring ==
    \/ ProctoringStatsRequest
    \/ \E alerts \in FrameAlerts : VideoFrameArrives(alerts)
    \/ VideoFrameResult
    \/ TabSwitchMessage
    \/ TurnSubmitted
    \/ \E technical_score \in ProctoredScores : TurnProcessed(technical_score)
    \/ \E tie_up \in BOOLEAN : TurnResponds(tie_up)
    \/ \E tie_up \in BOOLEAN : EndWhileProctored(tie_up)

SpecProctoring == InitProctoring /\ [][NextProctoring]_vars

(***************************************************************************)
(* The next question of a turn (interview_manager.py): what                 *)
(* analyze_answer_and_generate_question and                                 *)
(* get_next_question_without_answer make of the text self.llm.ask returns.  *)
(***************************************************************************)
QuestionMarker ==
    <<"Q", "U", "E", "S", "T", "I", "O", "N", ":">>

AnalysisMarker ==
    <<"A", "N", "A", "L", "Y", "S", "I", "S", ":">>

\* the places where marker occurs in t; the markers used cannot overlap
\* themselves, so these are the places str.split(marker) cuts at
Occurrences(t, marker) ==
    {i \in 1..(Len(t) - Len(marker) + 1) :
         SubSeq(t, i, i + Len(marker) - 1) = marker}

Lowest(S) == CHOOSE x \in S : \A y \in S : x <= y
Highest(S) == CHOOSE x \in S : \A y \in S : x >= y

\* t.split(marker)[1], for a t that contains marker
SecondPart(t, marker) ==
    LET first == Lowest(Occurrences(t, marker))
        later == {i \in Occurrences(t, marker) : i > first}
        stop == IF later = {} THEN Len(t) ELSE Lowest(later) - 1
    IN  SubSeq(t, first + Len(marker), stop)

\* t.split(marker)[-1], for a t that contains marker
LastPart(t, marker) ==
    SubSeq(t, Highest(Occurrences(t, marker)) + Len(marker), Len(t))

\* [line.strip() for line in t.split("\n") if line.strip()] (line 319)
RECURSIVE NonEmptyLines(_)
NonEmptyLines(t) ==
    LET breaks == {i \in 1..Len(t) : t[i] = "\n"}
        Kept(line) == IF Strip(line) = <<>> THEN <<>> ELSE <<Strip(line)>>
    IN  IF breaks = {} THEN Kept(t)
        ELSE Kept(SubSeq(t, 1, Lowest(breaks) - 1))
                 \o NonEmptyLines(SubSeq(t, Lowest(breaks) + 1, Len(t)))

\* the positions random.choice picks from in a list of three templates
TemplateChoices == {"1", "2", "3"}

\* _generate_fallback_question (lines 336-361): the template of the level's
\* list that random.choice picks; a template is named by level and position
FallbackQuestion(level, choice) ==
    <<"fallback question", IF level \in Levels THEN level ELSE "easy", choice>>

FallbackQuestions(level) == {FallbackQuestion(level, choice) : choice \in TemplateChoices}

\* self.llm.ask(prompt) (llm_runner.py lines 26-46): the fixed text when
\* every attempt raised or the response has no text, else the stripped text
AskResult(generation) ==
    IF generation.raised \/ generation.text = <<>> THEN FallbackText
    ELSE Strip(generation.text)

\* next_question of analyze_answer_and_generate_question (lines 306-334)
AnalyzeAnswerAndGenerateQuestion(response, level, choice) ==
    IF Contains(response, AnalysisMarker) /\ Contains(response, QuestionMarker)
    THEN Strip(SecondPart(response, QuestionMarker))
    ELSE IF Len(NonEmptyLines(response)) >= 2
         THEN NonEmptyLines(response)[2]
         ELSE FallbackQuestion(level, choice)

\* get_next_question_without_answer (lines 450-483)
GetNextQuestionWithoutAnswer(response, level, choice) ==
    LET stripped == Strip(response)
        question == IF Contains(stripped, QuestionMarker)
                    THEN Strip(LastPart(stripped, QuestionMarker))
                    ELSE stripped
    IN  IF Len(question) < 10 \/ Len(question) > 500
        THEN FallbackQuestion(level, choice)
        ELSE question

\* texts generate_content returns for a question prompt: the two formats
\* asked for, the format of the answered turn without a question after its
\* marker, two plain lines, one short line, blanks only, and a text of 501
\* characters
WellFormedReply ==
    <<"A", "N", "A", "L", "Y", "S", "I", "S", ":", " ", "o", "k", "\n",
      "Q", "U", "E", "S", "T", "I", "O", "N", ":", " ", "W", "h", "a", "t",
      " ", "i", "s", " ", "a", " ", "t", "e", "s", "t", "?">>

ReplyWithoutQuestion ==
    <<"A", "N", "A", "L", "Y", "S", "I", "S", ":", " ", "o", "k", "\n",
      "Q", "U", "E", "S", "T", "I", "O", "N", ":">>

QuestionOnlyReply ==
    <<"Q", "U", "E", "S", "T", "I", "O", "N", ":", " ", "W", "h", "a", "t",
      " ", "i", "s", " ", "a", " ", "t", "e", "s", "t", "?">>

TwoLineReply ==
    <<"G", "o", "o", "d", ".", "\n", "W", "h", "a", "t", " ", "i", "s",
      " ", "a", " ", "t", "e", "s", "t", "?">>

ShortReply ==
    <<"W", "h", "y", "?">>

BlankReply == <<" ", "\n">>

OverlongReply == [i \in 1..501 |-> "x"]

GeneratedTexts ==
    {WellFormedReply, ReplyWithoutQuestion, QuestionOnlyReply, TwoLineReply,
     ShortReply, BlankReply, OverlongReply}

\* what a call of generate_text meets: every attempt raises, the response
\* has no text, or the response has a text
Generations ==
    {[raised |-> TRUE, text |-> <<>>], [raised |-> FALSE, text |-> <<>>]}
        \cup {[raised |-> FALSE, text |-> t] : t \in GeneratedTexts}

(***************************************************************************)
(* One session whose turns meet failures (specification SpecFaults): the   *)
(* video is missing, the audio cannot be extracted or transcribed, the     *)
(* text generation fails or returns text of any shape, the score file      *)
(* cannot be written.                                                      *)
(***************************************************************************)
\* the score of every answer of the session
FaultyTurnScores == {75}

InitFaults ==
    /\ SessionInit /\ ScorerIdle /\ PenaltyIdle /\ EvalIdle /\ EndpointInit
    /\ WorkersIdle /\ RegistryIdle /\ ProctorIdle /\ FaultIdle

\* the JSON response of next_question (lines 982-1005) to a turn of the given
\* path whose process_video_answer returned next_question; the level
\* reported is result["current_level"], the session's own current_level,
\* which is also the final_level of the summary that end_interview writes
\* when the turn completes the session (line 732)
Respond(path, next_question, generation_failed, tie_up) ==
    /\ registered
    /\ FinishTurn(path, current_level', technical_scores', tie_up)
    /\ reply' =
           Some([success |-> TRUE,
                 completed |-> BudgetExhausted(question_number + 1),
                 next_question |->
                     IF BudgetExhausted(question_number + 1) THEN <<>>
                     ELSE next_question,
                 current_level |-> session_level',
                 question_number |-> question_number + 1,
                 summary_final_level |->
                     IF BudgetExhausted(question_number + 1) THEN session_level'
                     ELSE "none",
                 path |-> path,
                 generation_failed |-> generation_failed])
    /\ UNCHANGED <<tab_switch_count, proctoring_stats, ended_explicitly,
                   requests_after_end>>
    /\ UNCHANGED <<scorerVars, penaltyVars, evalVars, workerVars, registryVars,
                   proctorVars>>

\* a turn without a usable answer (process_video_answer lines 504-592)
SkippedTurn(generation, choice, tie_up) ==
    /\ UNCHANGED levelVars
    /\ current_question_index' = current_question_index + 1
    /\ UNCHANGED session_level
    /\ Respond("skipped",
               GetNextQuestionWithoutAnswer(AskResult(generation), current_level,
                                            choice),
               generation.raised, tie_up)

\* a turn with a transcribed answer (lines 594-652): process_answer scores
\* it, moves the level and generates the next question at the new level
AnsweredTurn(technical_score, generation, choice, tie_up) ==
    /\ technical_scores' = Append(technical_scores, technical_score)
    /\ DetermineNextLevel(technical_score)
    /\ RecordAnswer(technical_score)
    /\ session_level' = current_level'
    /\ Respond("answered",
               AnalyzeAnswerAndGenerateQuestion(AskResult(generation),
                                                current_level', choice),
               generation.raised, tie_up)

\* a turn with a transcribed answer whose score file cannot be written: the
\* open or json.dump of lines 612-630 raises after process_answer has
\* returned, and the handler of lines 654-676 asks for a question without
\* an answer, advances the counter and reports the session's current_level,
\* which line 636 has not updated
AnsweredTurnNotStored(technical_score, generation, choice, tie_up) ==
    /\ technical_scores' = Append(technical_scores, technical_score)
    /\ DetermineNextLevel(technical_score)
    /\ candidate_answers' =
           Append(candidate_answers,
                  [technical_score |-> technical_score, level |-> current_level'])
    /\ current_question_index' = current_question_index + 2
    /\ UNCHANGED session_level
    /\ Respond("fallback",
               GetNextQuestionWithoutAnswer(AskResult(generation), current_level',
                                            choice),
               generation.raised, tie_up)

NextFaults ==
    \/ \E generation \in Generations, choice \in TemplateChoices, tie_up \in BOOLEAN :
           SkippedTurn(generation, choice, tie_up)
    \/ \E technical_score \in FaultyTurnScores, generation \in Generations,
          choice \in TemplateChoices, tie_up \in BOOLEAN :
           AnsweredTurn(technical_score, generation, choice, tie_up)
    \/ \E technical_score \in FaultyTurnScores, generation \in Generations,
          choice \in TemplateChoices, tie_up \in BOOLEAN :
           AnsweredTurnNotStored(technical_score, generation, choice, tie_up)

SpecFaults == InitFaults /\ [][NextFaults]_vars

(***************************************************************************)
(* Properties of the level tracker (specification Spec).                   *)
(***************************************************************************)
LevelRank(level) ==
    CASE level = "easy" -> 1
      [] level = "medium" -> 2
      [] level = "hard" -> 3

Passed(i) == calls[i].score >= 60
Failed(i) == calls[i].score < 60

\* C1: every determine_next_level call leaves current_level unchanged or moves
\* it to an adjacent level of easy < medium < hard, and no call both promotes
\* and demotes.
C1_AdjacentLevelMoves ==
    /\ \A i \in 1..Len(calls) :
           LET d == LevelRank(calls[i].new_level) - LevelRank(calls[i].old_level)
           IN  d \in {-1, 0, 1}
    /\ Len(calls) > 0 => calls[Len(calls)].new_level = current_level
    /\ ~(promotion_needed /\ demotion_needed)

\* a session that was promoted twice and has just been demoted
C1_Witness ==
    /\ demotion_needed
    /\ \E i, j \in 1..Len(calls) :
           /\ i < j
           /\ calls[i].old_level = "easy" /\ calls[i].new_level = "medium"
           /\ calls[j].old_level = "medium" /\ calls[j].new_level = "hard"

\* C2: in every reachable state both streak counters are non-negative and at
\* least one of them is zero.
C2_OneStreakIsZero ==
    /\ consecutive_correct >= 0
    /\ consecutive_incorrect >= 0
    /\ Min(consecutive_correct, consecutive_incorrect) = 0

\* a failed answer has just ended a streak of at least two correct answers
C2_Witness ==
    /\ Len(calls) > 0
    /\ calls[Len(calls)].old_correct >= 2
    /\ consecutive_incorrect = 1
    /\ consecutive_correct = 0

\* C3 as stated: from any state at easy, two consecutive answers >= 60 make
\* the level medium and two more make it hard; at hard an answer >= 60 leaves
\* the level hard.
C3_Original ==
    /\ \A i \in 1..Len(calls) - 1 :
           (calls[i].old_level = "easy" /\ Passed(i) /\ Passed(i + 1))
               => calls[i + 1].new_level = "medium"
    /\ \A i \in 1..Len(calls) - 3 :
           (calls[i].old_level = "easy" /\ \A k \in i..i + 3 : Passed(k))
               => calls[i + 3].new_level = "hard"
    /\ \A i \in 1..Len(calls) :
           (calls[i].old_level = "hard" /\ Passed(i))
               => calls[i].new_level = "hard"

\* C3 amended: from a state at easy whose streak of correct answers is zero,
\* two consecutive answers >= 60 make the level medium and two more make it
\* hard; at hard an answer >= 60 leaves the level hard.
C3_PromotionLadder ==
    /\ \A i \in 1..Len(calls) - 1 :
           (/\ calls[i].old_level = "easy"
            /\ calls[i].old_correct = 0
            /\ Passed(i) /\ Passed(i + 1))
               => calls[i + 1].new_level = "medium"
    /\ \A i \in 1..Len(calls) - 3 :
           (/\ calls[i].old_level = "easy"
            /\ calls[i].old_correct = 0
            /\ \A k \in i..i + 3 : Passed(k))
               => calls[i + 3].new_level = "hard"
    /\ \A i \in 1..Len(calls) :
           (calls[i].old_level = "hard" /\ Passed(i))
               => calls[i].new_level = "hard"

\* five answers >= 60 in a row from easy with no streak: the fifth is given
\* at hard
C3_Witness ==
    \E i \in 1..Len(calls) - 4 :
        /\ calls[i].old_level = "easy"
        /\ calls[i].old_correct = 0
        /\ \A k \in i..i + 4 : Passed(k)
        /\ calls[i + 4].old_level = "hard"

\* C4 as stated: from any state at hard, two consecutive answers < 60 make
\* the level medium and two more make it easy; at easy an answer < 60 leaves
\* the level easy.
C4_Original ==
    /\ \A i \in 1..Len(calls) - 1 :
           (calls[i].old_level = "hard" /\ Failed(i) /\ Failed(i + 1))
               => calls[i + 1].new_level = "medium"
    /\ \A i \in 1..Len(calls) - 3 :
           (calls[i].old_level = "hard" /\ \A k \in i..i + 3 : Failed(k))
               => calls[i + 3].new_level = "easy"
    /\ \A i \in 1..Len(calls) :
           (calls[i].old_level = "easy" /\ Failed(i))
               => calls[i].new_level = "easy"

\* C4 amended: from a state at hard whose streak of incorrect answers is zero,
\* two consecutive answers < 60 make the level medium and two more make it
\* easy; at easy an answer < 60 leaves the level easy.
C4_DemotionLadder ==
    /\ \A i \in 1..Len(calls) - 1 :
           (/\ calls[i].old_level = "hard"
            /\ calls[i].old_incorrect = 0
            /\ Failed(i) /\ Failed(i + 1))
               => calls[i + 1].new_level = "medium"
    /\ \A i \in 1..Len(calls) - 3 :
           (/\ calls[i].old_level = "hard"
            /\ calls[i].old_incorrect = 0
            /\ \A k \in i..i + 3 : Failed(k))
               => calls[i + 3].new_level = "easy"
    /\ \A i \in 1..Len(calls) :
           (calls[i].old_level = "easy" /\ Failed(i))
               => calls[i].new_level = "easy"

\* four answers < 60 in a row from hard with no streak, ending at easy
C4_Witness ==
    \E i \in 1..Len(calls) - 3 :
        /\ calls[i].old_level = "hard"
        /\ calls[i].old_incorrect = 0
        /\ \A k \in i..i + 3 : Failed(k)
        /\ calls[i + 3].old_level = "easy"
        /\ current_level = "easy"

(***************************************************************************)
(* Properties of the final evaluation (specification Spec).                *)
(***************************************************************************)
\* C10: the overall_score of every final evaluation lies in [0, 100].
C10_OverallScoreInRange ==
    final_evaluation # None =>
        /\ final_evaluation[1].overall_score >= 0
        /\ final_evaluation[1].overall_score <= 10 * 100

\* the penalty exceeds the base score of an answered session: clamped to 0
C10_Witness ==
    /\ final_evaluation # None
    /\ Len(technical_scores) > 0
    /\ final_evaluation[1].proctoring_penalty = 70
    /\ final_evaluation[1].base_score < 700
    /\ final_evaluation[1].overall_score = 0


(***************************************************************************)
(* Properties of the answer scorer (specification SpecScorer).             *)
(***************************************************************************)
\* The integer tokens of 1 to 3 digits of a text: the runs <<i, j>> of digits,
\* at most three long, with no letter, digit or underscore next to them.
IntegerTokens(t) ==
    {p \in (1..Len(t)) \X (1..Len(t)) :
        /\ p[1] <= p[2]
        /\ p[2] - p[1] + 1 <= 3
        /\ \A k \in p[1]..p[2] : t[k] \in Digits
        /\ (p[1] = 1 \/ ~IsWordChar(t[p[1] - 1]))
        /\ (p[2] = Len(t) \/ ~IsWordChar(t[p[2] + 1]))}

FirstToken(t) ==
    CHOOSE p \in IntegerTokens(t) : \A q \in IntegerTokens(t) : p[1] <= q[1]

TokenValue(t, p) ==
    CASE p[2] - p[1] = 0 -> DigitValue(t[p[1]])
      [] p[2] - p[1] = 1 -> 10 * DigitValue(t[p[1]]) + DigitValue(t[p[1] + 1])
      [] p[2] - p[1] = 2 -> 100 * DigitValue(t[p[1]])
                            + 10 * DigitValue(t[p[1] + 1])
                            + DigitValue(t[p[1] + 2])

\* the answer under evaluation, with what it is by construction
TheAnswer == CHOOSE a \in AnswerPool : a.text = answer

\* C5: evaluate_answer_quality returns an integer in [0, 100]; when the
\* response holds an integer token of 1 to 3 digits the result is the first
\* such token clamped to [0, 100], whatever the answer.
C5_FirstTokenClamped ==
    scorer_pc = "done" =>
        /\ eval_score[1] \in 0..100
        /\ IntegerTokens(llm_response[1]) # {} =>
               LET v == TokenValue(llm_response[1], FirstToken(llm_response[1]))
               IN  eval_score[1] = IF v > 100 THEN 100 ELSE v

\* a response whose first token is above 100 was scored 100
C5_Witness ==
    /\ scorer_pc = "done"
    /\ IntegerTokens(llm_response[1]) # {}
    /\ TokenValue(llm_response[1], FirstToken(llm_response[1])) > 100
    /\ eval_score = Some(100)

\* C6 as stated: when the text-generation call raised during scoring (every
\* attempt of it), the score is 55 for an answer of more than 50 characters
\* and 40 otherwise.
C6_Original ==
    (scorer_pc = "done" /\ all_raised) =>
        eval_score[1] = IF TheAnswer.chars > 50 THEN 55 ELSE 40

\* C7: when the collaborator returned without error and its response holds no
\* integer token of 1 to 3 digits, the score is 65 for an answer of more than
\* 20 words that contains a keyword, and 45 otherwise.
C7_KeywordFallback ==
    (/\ scorer_pc = "done"
     /\ ~all_raised
     /\ IntegerTokens(llm_response[1]) = {}) =>
        eval_score[1] = IF TheAnswer.words > 20 /\ TheAnswer.keyword
                        THEN 65 ELSE 45

\* a response of the collaborator without a number, scored 65
C7_Witness ==
    /\ scorer_pc = "done"
    /\ ~all_raised
    /\ llm_response # Some(FallbackText)
    /\ llm_response # Some(<<>>)
    /\ IntegerTokens(llm_response[1]) = {}
    /\ eval_score = Some(65)


(***************************************************************************)
(* Properties of the proctoring penalty (specification SpecPenalty).       *)
(***************************************************************************)
\* the penalty as the claim writes it
PenaltyFormula(t, m, f, e, n, a) ==
    Min(70, Min(2 * t, 20)
            + Min(50, 15 * m + Min(5 * f, 25) + Min(5 * e, 25) + Min(2 * n, 15))
            + Min(a, 10))

FifteenTabSwitches == [NoStats EXCEPT !.tab_switch_count = 15]

CappedFaceSubtotal ==
    [NoStats EXCEPT !.multiple_faces = 1, !.face_coverings = 10,
                    !.eye_coverings = 10, !.no_face_count = 20]

\* C8: the penalty of InterviewManager._calculate_proctoring_penalty equals
\* min(70, min(2t,20) + min(50, 15m + min(5f,25) + min(5e,25) + min(2n,15))
\* + min(a,10)); 15 tab switches alone cost 20, and one multiple-face event
\* with 10 face coverings, 10 eye coverings and 20 no-face events costs 50.
C8_PenaltyFormula ==
    im_penalty # None =>
        LET s == stats[1]
        IN  /\ im_penalty[1] =
                   PenaltyFormula(s.tab_switch_count, s.multiple_faces,
                                  s.face_coverings, s.eye_coverings,
                                  s.no_face_count, s.total_alerts)
            /\ s = FifteenTabSwitches => im_penalty[1] = 20
            /\ s = CappedFaceSubtotal => im_penalty[1] = 50

\* the record whose face subtotal is 80 before its cap was charged 50
C8_Witness ==
    /\ stats = Some(CappedFaceSubtotal)
    /\ im_penalty = Some(50)

\* C9: the penalty either calculator returns lies in [0, 70].
C9_PenaltyInRange ==
    /\ im_penalty # None => (im_penalty[1] >= 0 /\ im_penalty[1] <= 70)
    /\ svc_penalty # None => (svc_penalty[1] >= 0 /\ svc_penalty[1] <= 70)

\* a record whose capped categories add up to more than 70 was charged 70 by
\* both calculators
C9_Witness ==
    /\ stats # None
    /\ IMTabPenalty(stats[1]) + IMCappedFacePenalty(stats[1])
           + IMAlertPenalty(stats[1]) > 70
    /\ im_penalty = Some(70)
    /\ svc_penalty = Some(70)


(***************************************************************************)
(* Properties of the final evaluation (specification Spec).                *)
(***************************************************************************)
\* the final evaluation stored by the last end_interview call, computed from
\* the state as it still is
FreshEvaluation == final_evaluation # None /\ AnswersAfterEnd = 0

\* the penalty of a supplied record, as claim C8 writes it
SuppliedPenalty(st) ==
    IF st = None THEN 0
    ELSE PenaltyFormula(st[1].tab_switch_count, st[1].multiple_faces,
                        st[1].face_coverings, st[1].eye_coverings,
                        st[1].no_face_count, st[1].total_alerts)

\* v, a count of tenths, is n-th of num rounded to the nearest integer
NearestTenth(v, num, n) ==
    /\ 2 * (v * n - num) <= n
    /\ 2 * (num - v * n) <= n

\* C11: level_score is 30, 70 or 100 for easy, medium or hard; the technical
\* average is the mean of technical_scores or 50 when there is none;
\* base_score = 0.6 * level_score + 0.4 * technical average; overall_score =
\* max(0, base_score - penalty of the supplied proctoring stats); each
\* reported to one decimal place.
C11_FinalEvaluationFormula ==
    FreshEvaluation =>
        LET e == final_evaluation[1]
            n == IF technical_scores = <<>> THEN 1 ELSE Len(technical_scores)
            sum == IF technical_scores = <<>> THEN 50
                   ELSE SumSeq(technical_scores)
            level_score == CASE current_level = "easy" -> 30
                             [] current_level = "medium" -> 70
                             [] current_level = "hard" -> 100
            base == 6 * level_score * n + 4 * sum
            penalty == SuppliedPenalty(e.penalty_details.proctoring_stats)
        IN  /\ e.level_score = level_score
            /\ NearestTenth(e.technical_score, 10 * sum, n)
            /\ NearestTenth(e.base_score, base, n)
            /\ NearestTenth(e.overall_score, Max(0, base - 10 * penalty * n), n)

\* a medium-level session with scored answers was evaluated with a penalty
\* that is subtracted without reaching the floor
C11_Witness ==
    /\ FreshEvaluation
    /\ current_level = "medium"
    /\ Len(technical_scores) >= 3
    /\ final_evaluation[1].proctoring_penalty = 50
    /\ final_evaluation[1].overall_score = final_evaluation[1].base_score - 500
    /\ final_evaluation[1].overall_score > 0

\* the categories of a record whose count is not zero, in the order of the
\* breakdown
NonzeroCategories(s) ==
    LET Item(count, name) == IF count # 0 THEN <<name>> ELSE <<>>
    IN  Item(s.tab_switch_count, "Tab switches")
        \o Item(s.multiple_faces, "Multiple people")
        \o Item(s.face_coverings, "Face covered")
        \o Item(s.eye_coverings, "Eyes covered")
        \o Item(s.no_face_count, "No face detected")
        \o Item(s.total_alerts, "Total alerts")

\* C14 as stated: penalty_details of the final evaluation lists one line item
\* per category with a nonzero count, in order, and its total_penalty is the
\* penalty subtracted from base_score.
C14_Original ==
    (FreshEvaluation /\ final_evaluation[1].penalty_details.proctoring_stats # None) =>
        LET e == final_evaluation[1]
        IN  /\ e.penalty_details.penalties_applied =
                   NonzeroCategories(e.penalty_details.proctoring_stats[1])
            /\ e.penalty_details.total_penalty = e.proctoring_penalty


(***************************************************************************)
(* Properties of repeated evaluation (specification SpecEvaluation).       *)
(***************************************************************************)
\* C13: a second computation of the final evaluation from the same session
\* state and proctoring counts returns the same level_score, technical
\* score, base_score, penalty and overall_score as the first, for both
\* calculators, and the level, technical_scores and proctoring counts the
\* computations read are what they were before the first one.
C13_EvaluationIdempotent ==
    /\ \A i \in 1..Len(evaluations.im) :
           /\ evaluations.im[i].level_score = evaluations.im[1].level_score
           /\ evaluations.im[i].technical_score = evaluations.im[1].technical_score
           /\ evaluations.im[i].base_score = evaluations.im[1].base_score
           /\ evaluations.im[i].proctoring_penalty =
                  evaluations.im[1].proctoring_penalty
           /\ evaluations.im[i].overall_score = evaluations.im[1].overall_score
    /\ \A i \in 1..Len(evaluations.svc) :
           /\ evaluations.svc[i].technical_avg = evaluations.svc[1].technical_avg
           /\ evaluations.svc[i].base_score = evaluations.svc[1].base_score
           /\ evaluations.svc[i].proctoring_penalty =
                  evaluations.svc[1].proctoring_penalty
           /\ evaluations.svc[i].overall_score = evaluations.svc[1].overall_score
    /\ ev_inputs # None =>
           /\ ev_inputs[1].level = current_level
           /\ ev_inputs[1].scores = technical_scores
           /\ ev_inputs[1].counts = stats

\* both calculators evaluated a scored session twice, the second evaluation
\* of the interview manager after the scoring service had stored its
\* breakdown with the record, with a penalty charged
C13_Witness ==
    /\ Len(evaluations.im) >= 2
    /\ Len(evaluations.svc) >= 2
    /\ technical_scores # <<>>
    /\ penalty_details # None
    /\ evaluations.im[2].proctoring_penalty = 50
    /\ evaluations.svc[2].proctoring_penalty = 50
    /\ evaluations.im[2].overall_score < evaluations.im[2].base_score


(***************************************************************************)
(* Properties of the session behind the endpoints (specification           *)
(* SpecTurns).                                                             *)
(***************************************************************************)
\* nine answers were scored, all with the same passing score, and the final
\* evaluation was computed from them with every proctoring count at zero
NineEqualPassingAnswers ==
    /\ Len(technical_scores) = 9
    /\ \A i \in 1..9 : technical_scores[i] = technical_scores[1]
    /\ technical_scores[1] >= 60
    /\ final_evaluation # None
    /\ final_evaluation[1].questions_answered = 9
    /\ final_evaluation[1].penalty_details.proctoring_stats = Some(NoStats)

\* C12: after 9 answered questions all scored s >= 60, with all proctoring
\* counts zero, the final evaluation has final_level hard, level_score 100,
\* technical average s, base_score 60 + 0.4 s and overall_score equal to
\* base_score (s = 75: 75, 90.0, 90.0).
C12_NinePassingAnswers ==
    NineEqualPassingAnswers =>
        LET e == final_evaluation[1]
            s == technical_scores[1]
        IN  /\ e.final_level = "hard"
            /\ e.level_score = 100
            /\ e.technical_score = 10 * s
            /\ e.base_score = 600 + 4 * s
            /\ e.overall_score = e.base_score
            /\ s = 75 => (e.technical_score = 750 /\ e.base_score = 900
                          /\ e.overall_score = 900)

\* the budget ended an interview of nine answers scored 75
C12_Witness ==
    /\ NineEqualPassingAnswers
    /\ technical_scores[1] = 75
    /\ last_request.response = "interview_completed"
    /\ final_evaluation[1].overall_score = 900

\* C15: with max_questions = 9 and no explicit end, the session is completed
\* exactly from the response to its 9th processed turn on: that response is
\* the completion message, no earlier turn returns it, and no response hands
\* out a question numbered above 9.
C15_CompletesAtNinthTurn ==
    ~ended_explicitly =>
        /\ status = "completed" <=> question_number - 1 >= 9
        /\ question_number - 1 <= 9
        /\ last_request.response = "interview_completed" =>
               last_request.question_number - 1 = 9
        /\ last_request.response = "next_question" =>
               (last_request.question_number <= 9 /\ status # "completed")
        /\ (last_request.kind \in {"answered", "skipped"}
            /\ last_request.question_number - 1 = 9) =>
               last_request.response = "interview_completed"

\* a session with skipped and answered turns was completed by its 9th turn
C15_Witness ==
    /\ ~ended_explicitly
    /\ status = "completed"
    /\ last_request.response = "interview_completed"
    /\ question_number = 10
    /\ Len(technical_scores) \in 1..8

\* C16 as stated: once the session is completed no request changes its
\* status, level, streak counters, level_progression, technical_scores,
\* question counter or stored final evaluation.
C16_Original ==
    [][status = "completed" =>
          UNCHANGED <<status, current_level, consecutive_correct,
                      consecutive_incorrect, level_progression, technical_scores,
                      question_number, final_evaluation>>]_vars

\* C17: a skipped turn appends nothing to technical_scores and leaves
\* current_level, consecutive_correct, consecutive_incorrect and
\* level_progression unchanged, while the question counter advances by one.
C17_SkippedTurnFrame ==
    [][last_request'.kind = "skipped" =>
          /\ technical_scores' = technical_scores
          /\ current_level' = current_level
          /\ consecutive_correct' = consecutive_correct
          /\ consecutive_incorrect' = consecutive_incorrect
          /\ level_progression' = level_progression
          /\ question_number' = question_number + 1]_vars

\* a turn was skipped after answered turns had raised the level and a streak
C17_Witness ==
    /\ last_request.kind = "skipped"
    /\ current_level = "medium"
    /\ consecutive_correct = 2
    /\ Len(technical_scores) = 2
    /\ question_number = 4


(***************************************************************************)
(* Properties of requests running together (specification SpecWorkers).    *)
(***************************************************************************)
\* the turn in slot w has begun to update the session (its score is appended)
\* and has not yet written the question counter
TurnUnderWay(w) == workers[w].pc \in {"scored", "levelled", "read"}

\* C18 as stated: within one session the scoring, level transition and
\* counter update of one turn complete before those of another begin, so no
\* two turns of the session are under way at once.
C18_Original ==
    \A a, b \in RequestSlots : (TurnUnderWay(a) /\ TurnUnderWay(b)) => a = b

(***************************************************************************)
(* Properties of several sessions in one process (specification            *)
(* SpecRegistry).                                                           *)
(***************************************************************************)
\* the fields of a session that an operation on another session must leave
\* alone
IndependentFields(r) ==
    [current_level |-> r.current_level,
     session_level |-> r.session_level,
     consecutive_correct |-> r.consecutive_correct,
     consecutive_incorrect |-> r.consecutive_incorrect,
     level_progression |-> r.level_progression,
     technical_scores |-> r.technical_scores,
     question_number |-> r.question_number,
     tab_switch_count |-> r.tab_switch_count,
     proctoring_stats |-> r.proctoring_stats]

C20_Original ==
    \A i, j \in 1..Len(sessions) :
        i # j => /\ sessions[i].session_id # sessions[j].session_id
                 /\ sessions[i].interview_id # sessions[j].interview_id

(***************************************************************************)
(* Streaks and level progression of the level tracker (specification       *)
(* Spec).                                                                   *)
(***************************************************************************)
\* the step is a determine_next_level call
LevelCall == Len(calls') = Len(calls) + 1

\* the score of the call the step makes
CallScore == calls'[Len(calls')].score

\* C28: a determine_next_level call with score s >= 60 adds one to
\* consecutive_correct and sets consecutive_incorrect to 0, a call with
\* s <= 59 adds one to consecutive_incorrect and sets consecutive_correct to
\* 0; the promotion and the demotion check read the streaks so updated.
C28_StreakUpdate ==
    [][LevelCall =>
           /\ CallScore >= 60 =>
                  /\ consecutive_correct' = consecutive_correct + 1
                  /\ consecutive_incorrect' = 0
           /\ CallScore <= 59 =>
                  /\ consecutive_incorrect' = consecutive_incorrect + 1
                  /\ consecutive_correct' = 0
           /\ promotion_needed' =
                  (current_level # "hard" /\ consecutive_correct' >= 2)
           /\ demotion_needed' =
                  (/\ ~promotion_needed'
                   /\ current_level # "easy"
                   /\ consecutive_incorrect' >= 2)]_vars

\* a passed answer after two failed ones: the streak of failed answers is
\* back at 0, the streak of passed answers at 1
C28_Witness ==
    /\ Len(calls) >= 3
    /\ calls[Len(calls)].score = 60
    /\ calls[Len(calls)].old_incorrect = 2
    /\ consecutive_correct = 1
    /\ consecutive_incorrect = 0

\* C29: a determine_next_level call that changes the level leaves both
\* streaks at the values of its streak update; the streak that caused the
\* change is at least 2 in the new level.
C29_StreaksSurviveLevelChange ==
    [][(LevelCall /\ current_level' # current_level) =>
           /\ consecutive_correct' =
                  (IF CallScore >= 60 THEN consecutive_correct + 1 ELSE 0)
           /\ consecutive_incorrect' =
                  (IF CallScore >= 60 THEN 0 ELSE consecutive_incorrect + 1)
           /\ promotion_needed' => consecutive_correct' >= 2
           /\ demotion_needed' => consecutive_incorrect' >= 2
           /\ promotion_needed' \/ demotion_needed']_vars

\* the session has just been promoted to hard on a streak of three
C29_Witness ==
    /\ Len(calls) >= 3
    /\ calls[Len(calls)].old_level = "medium"
    /\ current_level = "hard"
    /\ promotion_needed
    /\ consecutive_correct = 3
    /\ consecutive_incorrect = 0

\* C30: level_progression starts as <<"easy">>; a step keeps the entries it
\* has and appends one entry exactly when it changes current_level, which
\* only a determine_next_level call does; the last entry is current_level
\* and neighbouring entries are different, adjacent levels.
C30_ProgressionAppendOnly ==
    /\ level_progression = <<"easy">>
    /\ [](/\ level_progression[Len(level_progression)] = current_level
          /\ \A i \in 1..(Len(level_progression) - 1) :
                 \/ LevelRank(level_progression[i + 1])
                        = LevelRank(level_progression[i]) + 1
                 \/ LevelRank(level_progression[i + 1])
                        = LevelRank(level_progression[i]) - 1)
    /\ [][/\ Len(level_progression') >= Len(level_progression)
          /\ SubSeq(level_progression', 1, Len(level_progression))
                 = level_progression
          /\ Len(level_progression') =
                 Len(level_progression)
                     + (IF current_level' # current_level THEN 1 ELSE 0)
          /\ ~LevelCall => level_progression' = level_progression]_vars

\* up to hard and one level down again, with calls in between that changed
\* no level
C30_Witness ==
    /\ level_progression = <<"easy", "medium", "hard", "medium">>
    /\ current_level = "medium"
    /\ Len(calls) > 3

(***************************************************************************)
(* The final evaluation of the scoring service (specification              *)
(* SpecEvaluation).                                                         *)
(***************************************************************************)
\* C27: with at least one recorded question, the service's base_score is
\* 0.7 * mean of the technical scores + 30 * w, w being 0.3, 0.6 or 1.0 for
\* easy, medium or hard, and its overall_score is max(0, base_score -
\* proctoring penalty); with no recorded question overall_score is 0; in
\* both cases overall_score lies in 0..100.  Scores are reported to one
\* decimal place.
C27_ServiceEvaluationFormula ==
    \A k \in 1..Len(evaluations.svc) :
        LET e == evaluations.svc[k]
            n == Len(technical_scores)
            w10 == CASE current_level = "easy" -> 3
                     [] current_level = "medium" -> 6
                     [] current_level = "hard" -> 10
            base == 7 * SumSeq(technical_scores) + 30 * w10 * n
            penalty == IF stats = None THEN 0
                       ELSE SvcCalculateProctoringPenalty(stats[1])
        IN  /\ n > 0 => /\ NearestTenth(e.base_score, base, n)
                        /\ NearestTenth(e.overall_score,
                                        Max(0, base - 10 * penalty * n), n)
            /\ n = 0 => e.overall_score = 0
            /\ 0 <= e.overall_score
            /\ e.overall_score <= 1000

\* the service evaluated a medium-level session of two answers with a
\* penalty of 2 that is subtracted without reaching the floor
C27_Witness ==
    /\ Len(evaluations.svc) > 0
    /\ current_level = "medium"
    /\ Len(technical_scores) = 2
    /\ evaluations.svc[1].proctoring_penalty = 2
    /\ evaluations.svc[1].overall_score = evaluations.svc[1].base_score - 20
    /\ evaluations.svc[1].base_score = 7 * 80 + 180

(***************************************************************************)
(* Retries of the text generation (specification SpecScorer).              *)
(***************************************************************************)
\* C23: generate_text makes at most 3 attempts and sleeps the same 2 seconds
\* after every failed attempt but the last; when the third attempt has
\* failed the call is over, and the score of the answer is then one of the
\* heuristic values 40, 45, 55 and 65.
C23_BoundedRetries ==
    /\ attempt \in 0..2
    /\ Len(pauses) <= 2
    /\ \A i \in 1..Len(pauses) : pauses[i] = 2
    /\ scorer_pc = "asking" => Len(pauses) = attempt
    /\ (scorer_pc = "done" /\ all_raised) =>
           /\ Len(pauses) = 2
           /\ eval_score[1] \in {40, 45, 55, 65}

\* all three attempts failed on a detailed answer: two pauses were taken and
\* the answer got the heuristic score 65
C23_Witness ==
    /\ scorer_pc = "done"
    /\ all_raised
    /\ pauses = <<2, 2>>
    /\ llm_response = Some(FallbackText)
    /\ eval_score = Some(65)

(***************************************************************************)
(* Properties of the proctoring counters (specification SpecProctoring).   *)
(***************************************************************************)
\* the six counters of the session, tab switches as the session counts them
Counters == [proctoring_stats EXCEPT !.tab_switch_count = tab_switch_count]

CounterNames ==
    {"tab_switch_count", "multiple_faces", "face_coverings", "eye_coverings",
     "no_face_count", "total_alerts"}

\* C21: tab_switch_count, multiple_faces, face_coverings, eye_coverings,
\* no_face_count and total_alerts are non-negative integers, and no step of
\* the session (frame result, tab switch, turn, end) decreases one of them.
C21_CountersNeverDecrease ==
    /\ [](\A c \in CounterNames : Counters[c] \in Nat /\ proctoring_stats[c] \in Nat)
    /\ [][\A c \in CounterNames :
              /\ Counters'[c] >= Counters[c]
              /\ proctoring_stats'[c] >= proctoring_stats[c]]_vars

\* a frame with several people and a frame without a face have been
\* handled and a frame without alerts is about to be
C21_Witness ==
    /\ last_request.kind = "video_frame"
    /\ tab_switch_count = 0
    /\ proctoring_stats.multiple_faces = 1
    /\ proctoring_stats.no_face_count = 1
    /\ proctoring_stats.total_alerts = 2
    /\ video_socket.pc = "detecting"
    /\ video_socket.alerts = {}

\* C22: under every interleaving of frame handling, tab-switch handling and
\* a turn on the thread pool, each counter equals the number of events of
\* its kind handled so far, and a final evaluation is computed from the
\* counters as they stand when the session is ended: its record of counts is
\* that snapshot and its penalty is the penalty of that snapshot.
C22_NoEventLost ==
    /\ [](Counters = events_received
          /\ proctoring_stats.tab_switch_count = events_received.tab_switch_count)
    /\ [][final_evaluation' # final_evaluation =>
              /\ final_evaluation'[1].penalty_details.proctoring_stats
                     = Some(events_received)
              /\ events_received' = events_received
              /\ final_evaluation'[1].proctoring_penalty
                     = PenaltyFormula(events_received.tab_switch_count,
                                      events_received.multiple_faces,
                                      events_received.face_coverings,
                                      events_received.eye_coverings,
                                      events_received.no_face_count,
                                      events_received.total_alerts)]_vars

\* the ninth turn ended the session; a tab switch and an alert had been
\* handled after that turn wrote its score file, and both are in the penalty
C22_Witness ==
    /\ last_request.response = "interview_completed"
    /\ turn.score_file_stats = Some(NoStats)
    /\ events_received.tab_switch_count = 1
    /\ events_received.multiple_faces = 1
    /\ final_evaluation # None
    /\ final_evaluation[1].penalty_details.proctoring_stats = Some(events_received)
    /\ final_evaluation[1].proctoring_penalty = 18

(***************************************************************************)
(* Properties of a session whose turns meet failures (specification        *)
(* SpecFaults).                                                            *)
(***************************************************************************)
\* the response to the latest next-question request carries a question
Asked == reply # None /\ ~reply[1].completed

\* C24 as stated: when every attempt of the text generation of a turn has
\* raised, the request succeeds and the question handed out is one of the
\* fallback templates of the session's current level, on the answered and
\* on the skipped path.
C24_Original ==
    (Asked /\ reply[1].generation_failed)
        => /\ reply[1].success
           /\ reply[1].next_question \in FallbackQuestions(current_level)

\* C25 as stated: every next-question request on a registered session is
\* answered with the completion message or with a non-empty next question,
\* whatever failed during the turn.
C25_Original ==
    reply # None
        => \/ reply[1].completed
           \/ reply[1].success /\ reply[1].next_question # <<>>

\* C26 as stated: after every turn, a turn that fell back after an exception
\* included, the level change and the level_progression append of the turn
\* are applied together and the level and the question number reported to
\* the caller are those of the state.
C26_Original ==
    /\ level_progression[Len(level_progression)] = current_level
    /\ Asked => /\ reply[1].current_level = current_level
                /\ reply[1].question_number = question_number

(***************************************************************************)
(* Direction of the level changes (specification Spec).                    *)
(***************************************************************************)
\* the i-th determine_next_level call moved the level up / down
Promoted(i) == LevelRank(calls[i].new_level) > LevelRank(calls[i].old_level)
Demoted(i) == LevelRank(calls[i].new_level) < LevelRank(calls[i].old_level)

\* C33: a determine_next_level call promotes only with a score >= 60 and
\* demotes only with a score < 60, and two consecutive calls never change
\* the level in opposite directions.
C33_NoImmediateReversal ==
    /\ \A i \in 1..Len(calls) :
           /\ Promoted(i) => calls[i].score >= 60
           /\ Demoted(i) => calls[i].score < 60
    /\ \A i \in 1..(Len(calls) - 1) :
           /\ ~(Promoted(i) /\ Demoted(i + 1))
           /\ ~(Demoted(i) /\ Promoted(i + 1))

\* a promotion undone two calls later, after two failed answers, and a
\* demotion undone two calls later, after two passed answers
C33_Witness ==
    /\ \E i \in 1..(Len(calls) - 2) : Promoted(i) /\ Demoted(i + 2)
    /\ \E i \in 1..(Len(calls) - 2) : Demoted(i) /\ Promoted(i + 2)

(***************************************************************************)
(* The two penalty calculators side by side (specification SpecPenalty).   *)
(***************************************************************************)
\* C34: for every proctoring-stats record with non-negative counts,
\* InterviewManager._calculate_proctoring_penalty and
\* ScoringService.calculate_proctoring_penalty return the same penalty.
C34_CalculatorsAgree ==
    (im_penalty # None /\ svc_penalty # None) => im_penalty[1] = svc_penalty[1]

\* both calculators have charged a record whose alerts exceed their cap and
\* whose face subtotal exceeds its cap, below the cap of the total
C34_Witness ==
    /\ im_penalty # None
    /\ svc_penalty # None
    /\ stats[1].total_alerts = 11
    /\ IMFacePenalty(stats[1]) > 50
    /\ stats[1].tab_switch_count = 1
    /\ svc_penalty[1] = 62

(***************************************************************************)
(* Alerts of the video frames (specification SpecProctoring).              *)
(***************************************************************************)
\* C36: in every state of a session total_alerts is the sum of
\* multiple_faces, face_coverings, eye_coverings and no_face_count, and a
\* tab switch leaves total_alerts as it is.
C36_AlertsAddUp ==
    /\ [](proctoring_stats.total_alerts =
              proctoring_stats.multiple_faces + proctoring_stats.face_coverings
                  + proctoring_stats.eye_coverings + proctoring_stats.no_face_count)
    /\ [][tab_switch_count' # tab_switch_count =>
              proctoring_stats'.total_alerts = proctoring_stats.total_alerts]_vars

\* a tab switch has just been counted next to the alerts of two frames
C36_Witness ==
    /\ last_request.kind = "tab_switch"
    /\ tab_switch_count = 1
    /\ proctoring_stats.multiple_faces = 1
    /\ proctoring_stats.no_face_count = 1
    /\ proctoring_stats.total_alerts = 2

\* frames in which a face with landmarks is darker than before and has both
\* eyes dark
CoveredFrames ==
    {frame \in FrameSamples :
         frame.decodable /\ frame.faces >= 1 /\ frame.mesh /\ frame.darker
             /\ frame.eyes_dark}

C35_Original ==
    last_request.kind = "proctoring_stats"
        => last_request.estimated_penalty
               = IMCalculateProctoringPenalty(CollectedStats)

(***************************************************************************)
(* Scores, Q&A records and question counters over the turns of a session   *)
(* (specifications SpecTurns and SpecFaults).                              *)
(***************************************************************************)
\* the step is a processed turn: the session's counter advances
TurnStep == question_number' = question_number + 1

C32_Original ==
    /\ question_number >= 1
    /\ current_question_index = question_number

\* C37 as stated: after every turn process_video_answer returns (answered,
\* skipped or recovered by its exception fallback) the session's
\* current_level is the interview manager's, and the final_level of the
\* interview summary is the final_level of the final evaluation.
C37_Original ==
    reply # None
        => /\ session_level = current_level
           /\ reply[1].completed
                  => reply[1].summary_final_level = final_evaluation[1].final_level

(***************************************************************************)
(* Requests after the budget has ended the session (specification          *)
(* SpecTurns).                                                             *)
(***************************************************************************)
\* C39: the turn that exhausts the question budget removes the session from
\* active_sessions, and from then on every next-question, end and
\* proctoring-stats request for its id is answered 'Session not found' and
\* leaves the state of the session as it is.
C39_NotFoundAfterCompletion ==
    /\ [][(TurnStep /\ BudgetExhausted(question_number'))
              => (~registered' /\ last_request'.response = "interview_completed")]_vars
    /\ [][~registered =>
              /\ last_request'.response = "not_found"
              /\ last_request'.kind \in {"next_question", "end", "proctoring_stats"}
              /\ UNCHANGED <<sessionVars, question_number, session_level, is_active,
                             registered, tab_switch_count, proctoring_stats,
                             ended_explicitly>>]_vars

\* a next-question request has been refused after the ninth turn completed
\* the session
C39_Witness ==
    /\ ~registered
    /\ question_number = 10
    /\ status = "completed"
    /\ final_evaluation # None
    /\ last_request.kind = "next_question"
    /\ last_request.response = "not_found"
=============================================================================
